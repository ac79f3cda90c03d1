------------------------------- MODULE CryptoPmd -------------------------------
(***************************************************************************)
(* Crypto poll-mode-driver management of src/src/crypto/crypto_rte_pmd.c. *)
(* The crypto layer picks a device type for an SA from its algorithms     *)
(* (crypto_rte_set_session_parameters, crypto_rte_select_pmd_type) and    *)
(* creates or destroys virtual devices of that type on the main thread.   *)
(* Per type the file keeps an int8_t instance-id table pmd_inst_ids (a    *)
(* slot holds the caller's dev_id, -1 when free; the slot index is the   *)
(* suffix of the device name), a device count dev_cnts and the private   *)
(* session pool shared by the type's devices.  DPDK calls that can fail  *)
(* (rte_vdev_init, pool creation, configure/queue setup/start,           *)
(* rte_cryptodev_get_dev_id, rte_vdev_uninit) are nondeterministic.      *)
(***************************************************************************)
EXTENDS Integers, FiniteSets, TLC

CONSTANTS
    MAX_CRYPTO_PMD,         \* instance slots per device type
    CRYPTO_MAX_KEY_LENGTH,  \* bytes (crypto_defs.h)
    DevIds,                 \* dev_id values the crypto layer passes (uint8_t)
    SAs,                    \* algorithm sets of the SAs that ask for devices
    MaxOps                  \* bound on create/destroy calls

(* cryptodev_names: the device types the selection can return. *)
DevTypes == {"crypto_aesni_mb", "crypto_aesni_gcm", "crypto_null"}
Slots == 0 .. MAX_CRYPTO_PMD - 1

Int8(x) == IF (x % 256) >= 128 THEN (x % 256) - 256 ELSE x % 256

-----------------------------------------------------------------------------
(* cipher_algorithms[] and md_algorithms[]. *)
CipherAlgos == ("cbc(aes)" :> "AES_CBC") @@ ("cbc(des3_ede)" :> "3DES_CBC")
               @@ ("eNULL" :> "NULL") @@ ("ecb(cipher_null)" :> "NULL")
AuthAlgos == ("hmac(sha1)" :> "SHA1") @@ ("hmac(sha256)" :> "SHA256_HMAC")
             @@ ("hmac(sha384)" :> "SHA384_HMAC") @@ ("hmac(sha512)" :> "SHA512_HMAC")
             @@ ("hmac(md5)" :> "MD5") @@ ("rfc4106(gcm(aes))" :> "NULL")
             @@ ("aNULL" :> "NULL")

(* key_len is a uint16_t: alg_key_len / 8, minus the nonce for GCM. *)
U16(x) == x % 65536

(* The -EINVAL result of the parameter functions. *)
EINVAL == [cipher |-> "EINVAL", aead |-> "EINVAL"]

(* crypto_rte_set_cipher (with crypto_rte_setup_aes_gcm_cipher): the   *)
(* cipher and AEAD algorithms, or EINVAL.    aead_algo is left as the     *)
(* caller's zeroed session has it unless the SA is rfc4106.               *)
crypto_rte_set_cipher(name, keybits) ==
    IF name = "rfc4106(gcm(aes))"
    THEN LET k == U16(keybits \div 8 - 4) IN
         IF k < 4 \/ (k # 16 /\ k # 32) THEN EINVAL
         ELSE [cipher |-> "LIST_END", aead |-> "AES_GCM"]
    ELSE IF name \notin DOMAIN CipherAlgos THEN EINVAL
    ELSE LET k == U16(keybits \div 8) IN
         IF (k = 0 /\ CipherAlgos[name] # "NULL") \/ k > CRYPTO_MAX_KEY_LENGTH
         THEN EINVAL
         ELSE [cipher |-> CipherAlgos[name], aead |-> "none"]

(* crypto_rte_set_auth: TRUE when the digest is accepted. *)
crypto_rte_set_auth(name, keybits) ==
    /\ name \in DOMAIN AuthAlgos
    /\ U16(keybits \div 8) = 0 => AuthAlgos[name] = "NULL"

(* crypto_rte_set_session_parameters: the algorithms, or EINVAL. *)
crypto_rte_set_session_parameters(sa) ==
    LET c == crypto_rte_set_cipher(sa.cipher, sa.ckey) IN
    IF c = EINVAL \/ ~crypto_rte_set_auth(sa.auth, sa.akey) THEN EINVAL
    ELSE c

(* Fault variant: 3DES-CBC left out of the switch. *)
crypto_rte_select_pmd_type_no3des(cipher, aead) ==
    IF aead = "AES_GCM" THEN "crypto_aesni_gcm"
    ELSE CASE cipher = "AES_CBC" -> "crypto_aesni_mb"
           [] cipher = "NULL" -> "crypto_null"
           [] OTHER -> "EINVAL"

(* crypto_rte_select_pmd_type: the device type, or "EINVAL". *)
crypto_rte_select_pmd_type(cipher, aead) ==
    IF aead = "AES_GCM" THEN "crypto_aesni_gcm"
    ELSE CASE cipher \in {"3DES_CBC", "AES_CBC"} -> "crypto_aesni_mb"
           [] cipher = "NULL" -> "crypto_null"
           [] OTHER -> "EINVAL"

(* The device type the crypto layer asks for for an accepted SA. *)
PmdTypeOf(sa) ==
    LET p == crypto_rte_set_session_parameters(sa) IN
    crypto_rte_select_pmd_type(p.cipher, p.aead)
Accepted == {sa \in SAs : crypto_rte_set_session_parameters(sa) # EINVAL}

-----------------------------------------------------------------------------
VARIABLES
    sessPool,    \* crypto_session_pool allocated
    opPool,      \* crypto_op_pool allocated
    firstTime,   \* crypto_rte_find_inst_id has not yet reset the table
    instIds,     \* pmd_inst_ids: type -> slot -> int8 value
    devCnts,     \* dev_cnts: type -> count
    privPool,    \* crypto_priv_sess_pools[type] allocated
    vdevs,       \* DPDK virtual devices by name <<type, slot>>
    live,        \* devices the crypto layer holds: [type, id, name]
    rc,          \* result of the last call
    ops          \* calls made

vars == <<sessPool, opPool, firstTime, instIds, devCnts, privPool, vdevs,
          live, rc, ops>>

Device == [type : DevTypes, id : DevIds, name : DevTypes \X Slots]

TypeOK ==
    /\ sessPool \in BOOLEAN /\ opPool \in BOOLEAN /\ firstTime \in BOOLEAN
    /\ instIds \in [DevTypes -> [Slots -> -128 .. 127]]
    /\ devCnts \in [DevTypes -> 0 .. 255]
    /\ privPool \in [DevTypes -> BOOLEAN]
    /\ vdevs \subseteq DevTypes \X Slots
    /\ live \subseteq Device
    /\ ops \in 0 .. MaxOps

(* The static table is zero until the first lookup memsets it to -1. *)
Init ==
    /\ sessPool = FALSE /\ opPool = FALSE /\ firstTime = TRUE
    /\ instIds = [t \in DevTypes |-> [i \in Slots |-> 0]]
    /\ devCnts = [t \in DevTypes |-> 0]
    /\ privPool = [t \in DevTypes |-> FALSE]
    /\ vdevs = {} /\ live = {} /\ rc = "OK" /\ ops = 0

(* crypto_rte_setup, called once at start-up: the session pool, then the *)
(* op pool; a failure of the second frees the first.                      *)
crypto_rte_setup ==
    /\ ~sessPool /\ ~opPool
    /\ \/ rc' = "ENOMEM" /\ UNCHANGED <<sessPool, opPool>>
       \/ sessPool' = TRUE /\ opPool' = TRUE /\ rc' = "OK"
    /\ UNCHANGED <<firstTime, instIds, devCnts, privPool, vdevs, live, ops>>

(* crypto_rte_shutdown frees both pools. *)
crypto_rte_shutdown ==
    /\ sessPool \/ opPool
    /\ sessPool' = FALSE /\ opPool' = FALSE /\ rc' = "OK"
    /\ UNCHANGED <<firstTime, instIds, devCnts, privPool, vdevs, live, ops>>

(* crypto_rte_find_inst_id: the table after the first-time reset, and its *)
(* lowest free slot of the type (none when all are taken: -ENOSPC).       *)
ResetIds == IF firstTime THEN [t \in DevTypes |-> [i \in Slots |-> -1]]
            ELSE instIds
FreeSlots(t) == {i \in Slots : ResetIds[t][i] = -1}
crypto_rte_find_inst_id(t) ==
    CHOOSE i \in FreeSlots(t) : \A j \in FreeSlots(t) : i <= j

(* The fail: label of crypto_rte_create_pmd: the type's pool is freed   *)
(* when no device of the type is left, and the new device uninitialised. *)
(* Fault variant: the pool freed on every failure. *)
CreateFail_always(t) == privPool' = [privPool EXCEPT ![t] = FALSE]

CreateFail(t) == privPool' = [privPool EXCEPT ![t] = @ /\ devCnts[t] # 0]

(* The rte_vdev_uninit that ends the fail: path; its result is ignored,  *)
(* so when it fails the half-created device stays, held by nobody.       *)
VdevUninitIgnored(name) == vdevs' \in {vdevs, vdevs \cup {name}}

(* crypto_rte_create_pmd(dev_id, dev_type) for the type selected for an   *)
(* accepted SA.  rte_vdev_init fails for a name already in use and may    *)
(* fail for lack of memory; the private pool is set up when missing (may *)
(* fail); configure, queue pair setup or start may fail, and queue pair   *)
(* setup does when there is a private pool and no session pool.  Only on  *)
(* success is the dev_id stored, truncated to int8_t, and counted.        *)
crypto_rte_create_pmd(t, id) ==
    /\ ops < MaxOps
    /\ ops' = ops + 1 /\ firstTime' = FALSE
    /\ IF FreeSlots(t) = {}
       THEN /\ rc' = "ENOSPC" /\ instIds' = ResetIds
            /\ UNCHANGED <<devCnts, privPool, vdevs, live>>
       ELSE LET i == crypto_rte_find_inst_id(t)
                name == <<t, i>> IN
       \/ /\ rc' = "vdev_init"                  \* rte_vdev_init fails
          /\ instIds' = ResetIds
          /\ UNCHANGED <<devCnts, privPool, vdevs, live>>
       \/ /\ name \notin vdevs
          /\ ~privPool[t]                       \* setup_priv_pool fails
          /\ rc' = "ENOMEM" /\ instIds' = ResetIds
          /\ CreateFail(t) /\ VdevUninitIgnored(name)
          /\ UNCHANGED <<devCnts, live>>
       \/ /\ name \notin vdevs                  \* configure/qp/start fails
          /\ rc' = "dev_setup" /\ instIds' = ResetIds
          /\ CreateFail(t) /\ VdevUninitIgnored(name)
          /\ UNCHANGED <<devCnts, live>>
       \/ /\ name \notin vdevs /\ sessPool
          /\ rc' = "OK"
          /\ instIds' = [ResetIds EXCEPT ![t][i] = Int8(id)]
          /\ devCnts' = [devCnts EXCEPT ![t] = @ + 1]
          /\ privPool' = [privPool EXCEPT ![t] = TRUE]
          /\ vdevs' = vdevs \cup {name}
          /\ live' = live \cup {[type |-> t, id |-> id, name |-> name]}
    /\ UNCHANGED <<sessPool, opPool>>

(* Fault variant: the count decremented before rte_vdev_uninit succeeds. *)
crypto_rte_destroy_pmd_early(d) ==
    LET t == d.type
        hit == {i \in Slots : instIds[t][i] = d.id} IN
    /\ ops < MaxOps /\ ops' = ops + 1
    /\ IF hit = {}
       THEN rc' = "EINVAL" /\ UNCHANGED <<instIds, devCnts, privPool, vdevs, live>>
       ELSE LET i == CHOOSE k \in hit : \A j \in hit : k <= j IN
            /\ instIds' = [instIds EXCEPT ![t][i] = -1]
            /\ devCnts' = [devCnts EXCEPT ![t] = @ - 1]
            /\ privPool' = [privPool EXCEPT ![t] = @ /\ devCnts[t] # 1]
            /\ \/ rc' = "uninit" /\ UNCHANGED <<vdevs, live>>
               \/ rc' = "OK" /\ vdevs' = vdevs \ {d.name} /\ live' = live \ {d}
    /\ UNCHANGED <<sessPool, opPool, firstTime>>

(* crypto_rte_destroy_pmd(dev_type, dev_name, dev_id) of a device the     *)
(* crypto layer holds: the first slot equal to dev_id (an int compared    *)
(* with the int8_t entry) is freed, else -EINVAL.  The device is then    *)
(* stopped and uninitialised; if rte_vdev_uninit fails the call returns  *)
(* with the slot already freed and the device still counted and present.  *)
(* The rte_cryptodev_get_dev_id lookup of a held device's name succeeds. *)
crypto_rte_destroy_pmd(d) ==
    LET t == d.type
        hit == {i \in Slots : instIds[t][i] = d.id} IN
    /\ ops < MaxOps /\ ops' = ops + 1
    /\ IF hit = {}
       THEN rc' = "EINVAL" /\ UNCHANGED <<instIds, devCnts, privPool, vdevs, live>>
       ELSE LET i == CHOOSE k \in hit : \A j \in hit : k <= j IN
            /\ instIds' = [instIds EXCEPT ![t][i] = -1]
            /\ \/ rc' = "uninit" /\ UNCHANGED <<devCnts, privPool, vdevs, live>>
               \/ /\ rc' = "OK"
                  /\ devCnts' = [devCnts EXCEPT ![t] = @ - 1]
                  /\ privPool' = [privPool EXCEPT ![t] = @ /\ devCnts[t] # 1]
                  /\ vdevs' = vdevs \ {d.name} /\ live' = live \ {d}
    /\ UNCHANGED <<sessPool, opPool, firstTime>>

(* The crypto layer asks for a device for an SA whose parameters were    *)
(* accepted: a type crypto_rte_select_pmd_type rejects ends the request   *)
(* with -EINVAL, any other is passed to crypto_rte_create_pmd.  dev ids   *)
(* of held devices are distinct.                                          *)
RequestPmd(sa, id) ==
    IF PmdTypeOf(sa) \in DevTypes
    THEN crypto_rte_create_pmd(PmdTypeOf(sa), id)
    ELSE /\ ops < MaxOps /\ ops' = ops + 1 /\ rc' = "select_EINVAL"
         /\ UNCHANGED <<sessPool, opPool, firstTime, instIds, devCnts,
                        privPool, vdevs, live>>

Next ==
    \/ crypto_rte_setup
    \/ crypto_rte_shutdown
    \/ \E sa \in Accepted, id \in DevIds :
          /\ id \notin {d.id : d \in live}
          /\ RequestPmd(sa, id)
    \/ \E d \in live : crypto_rte_destroy_pmd(d)

Spec == Init /\ [][Next]_vars

-----------------------------------------------------------------------------
(* No device request fails in crypto_rte_select_pmd_type: every SA whose  *)
(* algorithms crypto_rte_set_session_parameters accepted is given a type, *)
(* so the algorithm tables and the selection switch agree.               *)
SelectableWhenAccepted == rc # "select_EINVAL"

(* A type's private session pool is allocated while dev_cnts counts a     *)
(* device of it: the fail path of crypto_rte_create_pmd and               *)
(* crypto_rte_destroy_pmd free it only when no device is counted.         *)
PoolWhileDevices ==
    \A t \in DevTypes : devCnts[t] > 0 => privPool[t]

(* dev_cnts counts exactly the devices of the type that the crypto layer  *)
(* holds, and each held device is a DPDK device: a failed create counts   *)
(* nothing, and a failed destroy keeps both count and device.  (A device  *)
(* the fail path could not uninitialise is a DPDK device nobody holds.)  *)
DevicesAccounted ==
    /\ \A t \in DevTypes : devCnts[t] = Cardinality({d \in live : d.type = t})
    /\ {d.name : d \in live} \subseteq vdevs
=============================================================================
