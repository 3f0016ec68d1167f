------------------------------ MODULE Credentials ------------------------------
(***************************************************************************)
(* api.py: /api/encrypt and /api/decrypt.  A private key is stored in two  *)
(* parts, the encrypted data and its credentials; the password among the   *)
(* credentials is encrypted with the master key of the service.            *)
(* Authenticated encryption is a record that opens with its own key only.  *)
(* What a call draws at random, the salt, the nonce and the post-quantum   *)
(* key pair, is named by the private key it was called with.               *)
(***************************************************************************)
EXTENDS Naturals

Failed == [status |-> "error"]

\* derive_key_from_password and HKDF: a key for each combination of inputs.
CombinedKey(password, salt, secret) == <<password, salt, secret>>

Hmac(key, fields) == <<key, fields>>

Unsigned(c) == [field \in DOMAIN c \ {"hmac_tag"} |-> c[field]]

\* Mutant of MasterKey: the environment is not looked at.
DrawnMasterKey(environment, process) == process

\* The master key of a process: MASTER_KEY_PQ, or one drawn at its start.
MasterKey(environment, process) == IF environment THEN 0 ELSE process

\* encrypt_it, with the password of the client or one drawn here.
EncryptIt(private_key, password, master) ==
  LET key == CombinedKey(password, private_key, private_key)
      fields == [salt |-> private_key, pq_private_key |-> private_key,
                 pq_ciphertext |-> private_key, nonce |-> private_key,
                 encrypted_password |-> [key |-> master, plain |-> password]]
  IN  [data |-> [key |-> key, nonce |-> private_key, plain |-> private_key],
       credentials |-> [field \in DOMAIN fields \union {"hmac_tag"} |->
                          IF field = "hmac_tag" THEN Hmac(key, fields) ELSE fields[field]]]

\* Decapsulation with another key pair's private key yields another secret.
SharedSecret(private, ciphertext) ==
  IF private = ciphertext THEN private ELSE <<private, ciphertext>>

\* decrypt_it.  The password opens under the master key it was encrypted with.
DecryptIt(data, c, master) ==
  LET password == c.encrypted_password
      key == CombinedKey(password.plain, c.salt, SharedSecret(c.pq_private_key, c.pq_ciphertext))
  IN  IF /\ password.key = master
         /\ c.hmac_tag = Hmac(key, Unsigned(c))
         /\ data.key = key
         /\ data.nonce = c.nonce
      THEN [status |-> "success", private_key |-> data.plain]
      ELSE Failed
=============================================================================
