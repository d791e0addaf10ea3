---------------------------- MODULE PasswordHash ----------------------------
(***************************************************************************)
(* How the control plane writes down the hash of a password and reads it   *)
(* back (api/argon2id.go).  The encoded hash is a string of parts that "$" *)
(* separates, the first of them empty.  A part is a sequence of tokens     *)
(* here: a word, the text of the parameters, or the base64 text of some    *)
(* bytes, which decodes to those bytes and, with anything added to it,     *)
(* does not decode.                                                        *)
(***************************************************************************)
EXTENDS Integers, Sequences

CONSTANT Salts \* what rand.Read may fill a salt with

DefaultArgon2idParameters == [Memory |-> 65536, Iterations |-> 2, Parallelism |-> 2]

(* argon2.IDKey, taken to be injective. *)
IDKey(password, salt, params) == <<password, salt, params>>

(* The fields where parseArgon2id's comment says they are. *)
WellFormed(params, salt, hash) ==
  << << >>, <<"argon2id">>, <<"v=19">>, <<params>>, <<salt>>, <<hash>> >>

(* The fields as HashPass formats them: a comma follows the parallelism,   *)
(* and another the salt.                                                   *)
Formatted(params, salt, hash) ==
  << << >>, <<"argon2id">>, <<"v=19">>, <<params, ",">>, <<salt, ",">>, <<hash>> >>

(* The possible results for a password that is not empty. *)
HashPass(password) ==
  {Formatted(DefaultArgon2idParameters, salt, IDKey(password, salt, DefaultArgon2idParameters)) :
     salt \in Salts}

(* fmt.Sscanf does not mind what follows the fields it looks for, the      *)
(* base64 decoder does.                                                    *)
Scans(part) == Len(part) >= 1
Decodes(part) == Len(part) = 1

parseArgon2id(encoded) ==
  IF /\ Len(encoded) = 6 /\ encoded[2] = <<"argon2id">> /\ encoded[3] = <<"v=19">>
     /\ Scans(encoded[4]) /\ Decodes(encoded[5]) /\ Decodes(encoded[6])
    THEN {[params |-> encoded[4][1], salt |-> encoded[5][1], hash |-> encoded[6][1]]}
    ELSE {}

(* An operator named after a mistake is a variant of the one it precedes;  *)
(* no behaviour uses it.                                                   *)
VerifyPassUnchecked(encoded, password) ==
  IF parseArgon2id(encoded) = {} THEN "error" ELSE "match"
VerifyPass(encoded, password) ==
  IF parseArgon2id(encoded) = {} THEN "error"
  ELSE IF \E p \in parseArgon2id(encoded) : p.hash = IDKey(password, p.salt, p.params) THEN "match"
  ELSE "differs"
=============================================================================
