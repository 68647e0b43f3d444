---------------------------- MODULE Installation ----------------------------
(***************************************************************************)
(* One installation of `privox`: the secret file beside the vault, the     *)
(* vault's rows, and the processes that `privox init`, `privox` and        *)
(* `privox vault clear` start over them (src/main.rs, with the encryption  *)
(* of src/vault/crypto.rs and the journal of src/vault/sqlite.rs).         *)
(* Processes are killed at any step, the machine loses power, and the      *)
(* operator may delete the secret.                                         *)
(*                                                                         *)
(* Here rows do not expire and every value has one type: VaultTable and    *)
(* Tokens have the rest.                                                   *)
(***************************************************************************)
EXTENDS FiniteSets

CONSTANTS
  Proc,     \* bound: the processes at a time
  Initers,  \* those of them that run `privox init`; the others serve
  Secret,   \* bound: the secrets generate_secret may give
  Empty,    \* the content of a secret file without a byte
  NoFile,   \* there is no secret file
  Value     \* the sensitive values of clients

Content == Secret \cup {Empty}

ASSUME InstallationAssumption ==
  /\ Initers \subseteq Proc
  /\ Empty \notin Secret
  /\ NoFile \notin Content

VARIABLES
  secretFile,  \* what secret.key holds
  tight,       \* its mode is 0600
  synced,      \* what the disk has of it
  rows,        \* the committed rows of token_mappings
  disk,        \* those that are on the disk, not only in the journal's pages
  pc,          \* where the command of a process is
  mine,        \* the secret an init has generated
  holds,       \* the inits that have the file at the path open
  key,         \* the key of a process's vault
  hmac,        \* the secret of its tokenizer
  made,        \* the tokens a request of a process has stored, not sent yet
  used,        \* history: the secrets that were generated
  sent,        \* history: the tokens that have gone upstream
  cleared,     \* history: the tokens whose rows were cleared
  outage,      \* history: the power has failed
  cutShort,    \* history: an init was killed before its end
  disturbed,   \* history: secret.key changed between the two reads of a start
  overlapped   \* history: of the inits under way one began during another

fileVars == <<secretFile, tight, synced>>
vaultVars == <<rows, disk>>
procVars == <<pc, mine, holds, key, hmac, made>>
historyVars == <<used, sent, cleared, outage, cutShort, disturbed, overlapped>>
vars == <<fileVars, vaultVars, procVars, historyVars>>

(* A token is an HMAC of the value under a secret, a key is derived from one. *)
GenerateToken(v, s) == [of |-> v, by |-> s]
Token == [of : Value, by : Content]

(* Mutant: the secret itself is the key. *)
RawKey(s) == s

DeriveKey(s) == [derived |-> s]
Key == [derived : Content]

(* encrypt and decrypt: what one key has sealed no other opens. *)
Encrypted(token, k) == [token |-> token, sealed |-> k]
Row == [token : Token, sealed : Key]
Decrypts(row, k) == row.sealed = k

Label == {"idle", "absent", "created", "written", "opened", "serving"}
InitLabel == {"absent", "created", "written"}

NoSecret == Empty

Init ==
  /\ secretFile = NoFile
  /\ tight = FALSE
  /\ synced = NoFile
  /\ rows = {}
  /\ disk = {}
  /\ pc = [p \in Proc |-> "idle"]
  /\ mine = [p \in Proc |-> NoSecret]
  /\ holds = {}
  /\ key = [p \in Proc |-> DeriveKey(NoSecret)]
  /\ hmac = [p \in Proc |-> NoSecret]
  /\ made = [p \in Proc |-> {}]
  /\ used = {}
  /\ sent = {}
  /\ cleared = {}
  /\ outage = FALSE
  /\ cutShort = FALSE
  /\ disturbed = FALSE
  /\ overlapped = FALSE

Goto(p, label) == pc' = [pc EXCEPT ![p] = label]

Initializing == {p \in Proc : pc[p] \in InitLabel}

(* An init ends, in whatever way. *)
Ends(p) == overlapped' = (overlapped /\ Initializing \ {p} # {})

(* secret.key changes while a start has read it once. *)
Disturb == disturbed' = (disturbed \/ \E p \in Proc : pc[p] = "opened")

-----------------------------------------------------------------------------
(* Mutant: does not ask whether the file exists. *)
InitAnyway(p) ==
  /\ p \in Initers
  /\ pc[p] = "idle"
  /\ \E s \in Secret \ used :
       /\ mine' = [mine EXCEPT ![p] = s]
       /\ used' = used \cup {s}
  /\ overlapped' = (overlapped \/ Initializing # {})
  /\ Goto(p, "absent")
  /\ UNCHANGED <<fileVars, vaultVars, holds, key, hmac, made, sent, cleared,
                 outage, cutShort, disturbed>>

(***************************************************************************)
(* `privox init` up to generate_secret.  Where there is a file it refuses  *)
(* and leaves no trace.                                                    *)
(***************************************************************************)
CheckAbsent(p) ==
  /\ p \in Initers
  /\ pc[p] = "idle"
  /\ secretFile = NoFile
  /\ \E s \in Secret \ used :
       /\ mine' = [mine EXCEPT ![p] = s]
       /\ used' = used \cup {s}
  /\ overlapped' = (overlapped \/ Initializing # {})
  /\ Goto(p, "absent")
  /\ UNCHANGED <<fileVars, vaultVars, holds, key, hmac, made, sent, cleared,
                 outage, cutShort, disturbed>>

(* std::fs::write opens: an existing file is emptied and keeps its mode. *)
Create(p) ==
  /\ pc[p] = "absent"
  /\ secretFile' = Empty
  /\ tight' = (tight /\ secretFile # NoFile)
  /\ holds' = holds \cup {p}
  /\ Disturb
  /\ Goto(p, "created")
  /\ UNCHANGED <<synced, vaultVars, mine, key, hmac, made, used, sent, cleared,
                 outage, cutShort, overlapped>>

(* ... and writes, to a file that may be deleted by then; nothing is synced. *)
Write(p) ==
  /\ pc[p] = "created"
  /\ \/ p \in holds /\ secretFile' = mine[p] /\ Disturb
     \/ p \notin holds /\ UNCHANGED <<secretFile, disturbed>>
  /\ holds' = holds \ {p}
  /\ Goto(p, "written")
  /\ UNCHANGED <<tight, synced, vaultVars, mine, key, hmac, made, used, sent,
                 cleared, outage, cutShort, overlapped>>

(* Mutant: the mode is left to the umask. *)
FinishLoose(p) ==
  /\ pc[p] = "written"
  /\ mine' = [mine EXCEPT ![p] = NoSecret]
  /\ Goto(p, "idle")
  /\ Ends(p)
  /\ UNCHANGED <<fileVars, vaultVars, holds, key, hmac, made, used, sent, cleared,
                 outage, cutShort, disturbed>>

(* set_permissions on what is at the path, an error if nothing is; the end. *)
SetMode(p) ==
  /\ pc[p] = "written"
  /\ tight' = (secretFile # NoFile)
  /\ mine' = [mine EXCEPT ![p] = NoSecret]
  /\ Goto(p, "idle")
  /\ Ends(p)
  /\ UNCHANGED <<secretFile, synced, vaultVars, holds, key, hmac, made, used, sent,
                 cleared, outage, cutShort, disturbed>>

-----------------------------------------------------------------------------
(* open_vault: the first load_secret, and SqliteVault::open. *)
OpenVault(p) ==
  /\ p \notin Initers
  /\ pc[p] = "idle"
  /\ secretFile # NoFile
  /\ key' = [key EXCEPT ![p] = DeriveKey(secretFile)]
  /\ Goto(p, "opened")
  /\ UNCHANGED <<fileVars, vaultVars, mine, holds, hmac, made, historyVars>>

(* cmd_serve: the second load_secret, for the tokenizer. *)
Serve(p) ==
  /\ pc[p] = "opened"
  /\ secretFile # NoFile
  /\ hmac' = [hmac EXCEPT ![p] = secretFile]
  /\ Goto(p, "serving")
  /\ UNCHANGED <<fileVars, vaultVars, mine, holds, key, made, historyVars>>

Forget(p) ==
  /\ pc' = [pc EXCEPT ![p] = "idle"]
  /\ mine' = [mine EXCEPT ![p] = NoSecret]
  /\ holds' = holds \ {p}
  /\ key' = [key EXCEPT ![p] = DeriveKey(NoSecret)]
  /\ hmac' = [hmac EXCEPT ![p] = NoSecret]
  /\ made' = [made EXCEPT ![p] = {}]

(* The same with the file gone: the start fails. *)
FailToServe(p) ==
  /\ pc[p] = "opened"
  /\ secretFile = NoFile
  /\ Forget(p)
  /\ UNCHANGED <<fileVars, vaultVars, historyVars>>

(* Mutant: the key is derived anew from the file for each row. *)
StoreUnderCurrent(p, v) ==
  /\ pc[p] = "serving"
  /\ LET t == GenerateToken(v, hmac[p])
     IN /\ rows' = {x \in rows : x.token # t}
                     \cup {Encrypted(t, IF secretFile = NoFile THEN key[p]
                                        ELSE DeriveKey(secretFile))}
        /\ made' = [made EXCEPT ![p] = @ \cup {t}]
  /\ UNCHANGED <<fileVars, disk, pc, mine, holds, key, hmac, historyVars>>

(* A request of p stores one of its values; the row replaces an old one. *)
Store(p, v) ==
  /\ pc[p] = "serving"
  /\ LET t == GenerateToken(v, hmac[p])
     IN /\ rows' = {x \in rows : x.token # t} \cup {Encrypted(t, key[p])}
        /\ made' = [made EXCEPT ![p] = @ \cup {t}]
        /\ cleared' = cleared \ {t}
  /\ UNCHANGED <<fileVars, disk, pc, mine, holds, key, hmac, used, sent, outage,
                 cutShort, disturbed, overlapped>>

(* Mutant: tokens are sent before they are stored. *)
ForwardFirst(p) ==
  /\ pc[p] = "serving"
  /\ sent' = sent \cup {GenerateToken(v, hmac[p]) : v \in Value}
  /\ made' = [made EXCEPT ![p] = {}]
  /\ UNCHANGED <<fileVars, vaultVars, pc, mine, holds, key, hmac, used, cleared,
                 outage, cutShort, disturbed, overlapped>>

(* The requests of p go upstream with the tokens they have stored. *)
Forward(p) ==
  /\ pc[p] = "serving"
  /\ made[p] # {}
  /\ sent' = sent \cup made[p]
  /\ made' = [made EXCEPT ![p] = {}]
  /\ UNCHANGED <<fileVars, vaultVars, pc, mine, holds, key, hmac, used, cleared,
                 outage, cutShort, disturbed, overlapped>>

(***************************************************************************)
(* `privox vault clear --confirm`, a process of its own: open_vault wants  *)
(* the secret, whatever it is, then all rows go.                           *)
(***************************************************************************)
ClearAll ==
  /\ secretFile # NoFile
  /\ rows # {}
  /\ rows' = {}
  /\ cleared' = cleared \cup {x.token : x \in rows}
  /\ UNCHANGED <<fileVars, disk, procVars, used, sent, outage, cutShort, disturbed,
                 overlapped>>

-----------------------------------------------------------------------------
(* Some process is killed, or a serve shut down. *)
Kill(p) ==
  /\ pc[p] # "idle"
  /\ Forget(p)
  /\ cutShort' = (cutShort \/ pc[p] \in InitLabel)
  /\ Ends(p)
  /\ UNCHANGED <<fileVars, vaultVars, used, sent, cleared, outage, disturbed>>

(***************************************************************************)
(* The operator deletes the secret, as init's message tells them to, at    *)
(* any time: an init that has it open writes to a file without a name.     *)
(***************************************************************************)
Delete ==
  /\ secretFile # NoFile
  /\ secretFile' = NoFile
  /\ tight' = FALSE
  /\ holds' = {}
  /\ Disturb
  /\ UNCHANGED <<synced, vaultVars, pc, mine, key, hmac, made, used, sent, cleared,
                 outage, cutShort, overlapped>>

(* The operating system writes the file back. *)
SyncSecret ==
  /\ synced # secretFile
  /\ synced' = secretFile
  /\ UNCHANGED <<secretFile, tight, vaultVars, procVars, historyVars>>

(***************************************************************************)
(* A checkpoint, or the journal written back.  With synchronous=NORMAL a   *)
(* commit does not wait for it, so at a power failure the disk may be at   *)
(* any commit since the last one.                                          *)
(***************************************************************************)
Checkpoint ==
  /\ disk # rows
  /\ disk' = rows
  /\ UNCHANGED <<fileVars, rows, procVars, historyVars>>

(***************************************************************************)
(* The power fails: of the file there is what was synced, or, of one that  *)
(* was not, the name without the bytes.                                    *)
(***************************************************************************)
PowerFailure ==
  /\ secretFile' \in {synced} \cup (IF synced = secretFile \/ secretFile = NoFile
                                      THEN {} ELSE {Empty})
  /\ tight' \in (IF secretFile' = NoFile THEN {FALSE} ELSE BOOLEAN)
  /\ synced' = secretFile'
  /\ rows' = disk
  /\ pc' = [p \in Proc |-> "idle"]
  /\ mine' = [p \in Proc |-> NoSecret]
  /\ holds' = {}
  /\ key' = [p \in Proc |-> DeriveKey(NoSecret)]
  /\ hmac' = [p \in Proc |-> NoSecret]
  /\ made' = [p \in Proc |-> {}]
  /\ outage' = TRUE
  /\ overlapped' = FALSE
  /\ UNCHANGED <<disk, used, sent, cleared, cutShort, disturbed>>

Command(p) ==
  \/ CheckAbsent(p) \/ Create(p) \/ Write(p) \/ SetMode(p)
  \/ OpenVault(p) \/ Serve(p) \/ FailToServe(p)
  \/ \E v \in Value : Store(p, v)
  \/ Forward(p)

Next ==
  \/ \E p \in Proc : Command(p) \/ Kill(p)
  \/ ClearAll \/ Delete \/ SyncSecret \/ Checkpoint \/ PowerFailure

Spec == Init /\ [][Next]_vars

-----------------------------------------------------------------------------
TypeOK ==
  /\ secretFile \in Content \cup {NoFile}
  /\ tight \in BOOLEAN
  /\ synced \in Content \cup {NoFile}
  /\ rows \subseteq Row
  /\ disk \subseteq Row
  /\ pc \in [Proc -> Label]
  /\ mine \in [Proc -> Content]
  /\ holds \subseteq Proc
  /\ key \in [Proc -> Key]
  /\ hmac \in [Proc -> Content]
  /\ made \in [Proc -> SUBSET Token]
  /\ used \subseteq Secret
  /\ sent \subseteq Token
  /\ cleared \subseteq Token
  /\ outage \in BOOLEAN
  /\ cutShort \in BOOLEAN
  /\ disturbed \in BOOLEAN
  /\ overlapped \in BOOLEAN

(***************************************************************************)
(* A secret, once written, stays what it is until the operator deletes it  *)
(* or the power fails: no init writes over it, whatever was killed or      *)
(* deleted before.  Of inits that overlap this is not so: init looks for   *)
(* the file first and creates it later.                                    *)
(***************************************************************************)
SecretKept ==
  [][(secretFile \in Secret /\ secretFile' # secretFile /\ ~overlapped) =>
       (Delete \/ PowerFailure)]_vars

(***************************************************************************)
(* Unless the secret was replaced between the two reads of a start, every  *)
(* row can be decrypted by whoever makes its token: a serve never fails on *)
(* a token of its own, over any number of starts, new secrets, crashes and *)
(* power failures that bring old rows back.                                *)
(***************************************************************************)
OwnRowsReadable ==
  ~disturbed =>
    \A p \in Proc, x \in rows :
      pc[p] = "serving" /\ x.token.by = hmac[p] => Decrypts(x, key[p])

(***************************************************************************)
(* A token that has gone upstream has its row: killing the proxy loses     *)
(* none, and a power failure none that the disk had.  Only a clear takes   *)
(* them away.                                                              *)
(***************************************************************************)
SentTokensBacked ==
  \A t \in sent :
    \/ \E x \in rows : x.token = t
    \/ t \in cleared
    \/ outage /\ ~\E x \in disk : x.token = t

(***************************************************************************)
(* When no init is running, and none was cut short, the file holds a whole *)
(* secret that its owner alone can read, however inits overlapped and      *)
(* whatever was deleted under them.                                        *)
(***************************************************************************)
SecretWhole ==
  Initializing = {} /\ ~cutShort /\ ~outage =>
    secretFile = NoFile \/ (secretFile \in Secret /\ tight)
=============================================================================
