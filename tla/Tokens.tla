------------------------------- MODULE Tokens -------------------------------
(***************************************************************************)
(* Sensitive values and the tokens that stand for them: src/tokenizer.rs,  *)
(* Tokenizer::generate_token, and the pattern src/detokenizer.rs looks     *)
(* for.  A token is PREFIX_shortid.  The prefix is fixed by the type the   *)
(* detectors gave the value; the short id is the first three bytes of an   *)
(* HMAC of the value alone, so it is a function of the value for as long   *)
(* as the installation secret does not change, and nothing makes it        *)
(* injective.                                                              *)
(***************************************************************************)

CONSTANTS
  Value,       \* the sensitive strings that occur in requests
  EntityType,  \* the prefixes of EntityType::token_prefix in use
  Id,          \* the short ids, 2^24 of them in the code
  TypeOf,      \* the type the detectors give a value
  ShortId      \* the truncated HMAC-SHA256, keyed with the secret

Token == [type : EntityType, id : Id]

GenerateToken(v) == [type |-> TypeOf[v], id |-> ShortId[v]]

(***************************************************************************)
(* The pattern is \b[A-Z_]+_[0-9a-f]{6}\b: the two prefixes that hold a    *)
(* digit never match it.                                                   *)
(***************************************************************************)
DigitPrefix == {"IPV4", "IPV6"}

Recognised(t) == t.type \notin DigitPrefix

(***************************************************************************)
(* No two values that meet in the vault share a token.                     *)
(***************************************************************************)
NoCollision ==
  \A v, w \in Value : GenerateToken(v) = GenerateToken(w) => v = w

ASSUME TokensAssumption ==
  /\ TypeOf \in [Value -> EntityType]
  /\ ShortId \in [Value -> Id]
  /\ Value \cap Token = {}
=============================================================================
