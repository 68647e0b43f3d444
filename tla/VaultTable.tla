----------------------------- MODULE VaultTable -----------------------------
(***************************************************************************)
(* The table token_mappings of src/vault/sqlite.rs, the SQL statements     *)
(* SqliteVault runs on it, and the clock their callers read.  A statement  *)
(* is atomic: it runs under the connection's mutex and, against the other  *)
(* processes that have the file open, under SQLite's write lock.  What is  *)
(* not atomic is reading the clock: every operation reads it before it     *)
(* takes the mutex, so the statements take the reading as a parameter and  *)
(* the modules of the callers say when it was made.                        *)
(***************************************************************************)
EXTENDS Tokens, Integers

CONSTANTS
  TtlHours,  \* ttl_hours; validation refuses zero and nothing else
  Hour,      \* 3600, in ticks of the clock
  Half,      \* 2^63: an i64 is less, and at least its opposite
  MaxTime    \* bound: the clock stops there

ASSUME VaultAssumption ==
  /\ TtlHours \in Nat \ {0}
  /\ Hour \in Nat \ {0}
  /\ Half \in Nat \ {0}
  /\ MaxTime \in 0 .. Half - 1

(* How long an entry is to live. *)
Ttl == TtlHours * Hour

(* What is left of a number in an i64, where arithmetic wraps. *)
Signed(n) == ((n + Half) % (2 * Half)) - Half

I64 == -Half .. Half - 1

VARIABLES
  rows,  \* the committed rows, as every connection sees them
  now    \* SystemTime::now(), in seconds

vaultVars == <<rows, now>>

Time == 0 .. MaxTime

(***************************************************************************)
(* enc_value decrypts to value under the installation's key; session_id    *)
(* and created_at are written and never read back.                         *)
(***************************************************************************)
Row == [token : Token, value : Value, expires : I64]

VaultTypeOK ==
  /\ rows \subseteq Row
  /\ now \in Time

VaultInit ==
  /\ rows = {}
  /\ now = 0

(* Mutant: INSERT OR IGNORE, which does not renew a row that is there. *)
StoreIfAbsent(token, value, expires) ==
  /\ rows' = IF \E x \in rows : x.token = token
               THEN rows
               ELSE rows \cup {[token |-> token, value |-> value, expires |-> expires]}
  /\ UNCHANGED now

(* Mutant: the parameters are bound in the wrong order. *)
StoreSwapped(token, value, expires) ==
  /\ rows' = {x \in rows : x.token # token}
               \cup {[token |-> value, value |-> token, expires |-> expires]}
  /\ UNCHANGED now

(* INSERT OR REPLACE: token is the primary key. *)
Store(token, value, expires) ==
  /\ rows' = {x \in rows : x.token # token}
               \cup {[token |-> token, value |-> value, expires |-> expires]}
  /\ UNCHANGED now

(* Mutant: looked up by the short id alone. *)
SelectedByShortId(token, reading) ==
  {x \in rows : x.token.id = token.id /\ x.expires > reading}

(* SELECT ... WHERE token = ?1 AND expires_at > ?2 *)
Selected(token, reading) ==
  {x \in rows : x.token = token /\ x.expires > reading}

(* Mutant: purges by created_at instead of expires_at. *)
PurgeByAge(reading) ==
  /\ rows' = {x \in rows : x.expires - Ttl > reading}
  /\ UNCHANGED now

(* DELETE ... WHERE expires_at <= ?1 *)
PurgeExpired(reading) ==
  /\ rows' = {x \in rows : x.expires > reading}
  /\ UNCHANGED now

ClearAll ==
  /\ rows' = {}
  /\ UNCHANGED now
=============================================================================
