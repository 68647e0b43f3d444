-------------------------- MODULE InstallationProofs -------------------------
(***************************************************************************)
(* Proofs about Installation, for any number of processes, secrets and     *)
(* values.  Each property has an inductive invariant of its own: they      *)
(* speak of different variables, and few actions disturb each.             *)
(***************************************************************************)
EXTENDS Installation, TLAPS

USE DEF fileVars, vaultVars, procVars, historyVars

-----------------------------------------------------------------------------
(* Types. *)

LEMMA Derived == \A s \in Content : DeriveKey(s) \in Key
BY DEF DeriveKey, Key

LEMMA Typed ==
  ASSUME NEW v \in Value, NEW s \in Content, NEW k \in Key
  PROVE  /\ GenerateToken(v, s) \in Token
         /\ Encrypted(GenerateToken(v, s), k) \in Row
         /\ Encrypted(GenerateToken(v, s), k).token = GenerateToken(v, s)
         /\ Encrypted(GenerateToken(v, s), k).sealed = k
         /\ GenerateToken(v, s).by = s
BY DEF GenerateToken, Token, Encrypted, Row

LEMMA ForgetTyped == ASSUME TypeOK, NEW p \in Proc, Forget(p)
                     PROVE  /\ pc' \in [Proc -> Label] /\ mine' \in [Proc -> Content]
                            /\ key' \in [Proc -> Key] /\ hmac' \in [Proc -> Content]
                            /\ made' \in [Proc -> SUBSET Token] /\ holds' \subseteq Proc
<1>1. NoSecret \in Content /\ DeriveKey(NoSecret) \in Key /\ "idle" \in Label
  BY Derived DEF NoSecret, Content, Label
<1> QED BY <1>1 DEF TypeOK, Forget

LEMMA CommandTyped ==
  ASSUME TypeOK, NEW p \in Proc, Command(p)
  PROVE  TypeOK'
<1>1. CASE CheckAbsent(p)
  <2>1. PICK s \in Secret \ used : mine' = [mine EXCEPT ![p] = s] /\ used' = used \cup {s}
    BY <1>1 DEF CheckAbsent
  <2> QED BY <1>1, <2>1 DEF CheckAbsent, TypeOK, Goto, Label, Content
<1>2. CASE Create(p)
  BY <1>2 DEF Create, TypeOK, Goto, Label, Content, Disturb
<1>3. CASE Write(p)
  BY <1>3 DEF Write, TypeOK, Goto, Label, Content, Disturb
<1>4. CASE SetMode(p)
  BY <1>4 DEF SetMode, Ends, TypeOK, Goto, Label, Content, NoSecret
<1>5. CASE OpenVault(p)
  <2>1. DeriveKey(secretFile) \in Key
    BY <1>5, Derived DEF OpenVault, TypeOK
  <2> QED BY <1>5, <2>1 DEF OpenVault, TypeOK, Goto, Label
<1>6. CASE Serve(p)
  BY <1>6 DEF Serve, TypeOK, Goto, Label
<1>7. CASE FailToServe(p)
  BY <1>7, ForgetTyped DEF FailToServe, TypeOK
<1>8. ASSUME NEW v \in Value, Store(p, v) PROVE TypeOK'
  <2> DEFINE t == GenerateToken(v, hmac[p])
  <2>1. t \in Token /\ Encrypted(t, key[p]) \in Row
    BY Typed DEF TypeOK
  <2>2. /\ rows' = {x \in rows : x.token # t} \cup {Encrypted(t, key[p])}
        /\ made' = [made EXCEPT ![p] = @ \cup {t}]
        /\ cleared' = cleared \ {t}
    BY <1>8 DEF Store
  <2> HIDE DEF t
  <2>3. rows' \subseteq Row
    BY <2>1, <2>2 DEF TypeOK
  <2> QED BY <1>8, <2>1, <2>2, <2>3 DEF Store, TypeOK
<1>9. CASE Forward(p)
  BY <1>9 DEF Forward, TypeOK
<1> QED
  BY <1>1, <1>2, <1>3, <1>4, <1>5, <1>6, <1>7, <1>8, <1>9 DEF Command

LEMMA InitTyped == Init => TypeOK
<1>1. NoSecret \in Content /\ DeriveKey(NoSecret) \in Key /\ "idle" \in Label
  BY Derived DEF NoSecret, Content, Label
<1> QED BY <1>1 DEF Init, TypeOK

LEMMA StepTyped == TypeOK /\ [Next]_vars => TypeOK'
<1> SUFFICES ASSUME TypeOK, [Next]_vars PROVE TypeOK'
  OBVIOUS
<1>1. ASSUME NEW p \in Proc, Command(p) PROVE TypeOK'
  BY <1>1, CommandTyped
<1>2. ASSUME NEW p \in Proc, Kill(p) PROVE TypeOK'
  <2>1. cutShort' \in BOOLEAN /\ overlapped' \in BOOLEAN
    BY <1>2 DEF Kill, Ends
  <2> QED BY <1>2, <2>1, ForgetTyped DEF Kill, TypeOK
<1>3. CASE ClearAll
  BY <1>3 DEF ClearAll, TypeOK, Row
<1>4. CASE Delete
  BY <1>4 DEF Delete, TypeOK, Disturb
<1>5. CASE SyncSecret
  BY <1>5 DEF SyncSecret, TypeOK
<1>6. CASE Checkpoint
  BY <1>6 DEF Checkpoint, TypeOK
<1>7. CASE PowerFailure
  <2>1. secretFile' \in Content \cup {NoFile} /\ tight' \in BOOLEAN
    BY <1>7 DEF PowerFailure, TypeOK, Content
  <2>2. NoSecret \in Content /\ DeriveKey(NoSecret) \in Key /\ "idle" \in Label
    BY Derived DEF NoSecret, Content, Label
  <2> QED BY <1>7, <2>1, <2>2 DEF PowerFailure, TypeOK
<1>8. CASE UNCHANGED vars
  BY <1>8 DEF vars, TypeOK
<1> QED BY <1>1, <1>2, <1>3, <1>4, <1>5, <1>6, <1>7, <1>8 DEF Next

(* Every variable keeps its type. *)
THEOREM InstallationTyped == Spec => []TypeOK
BY InitTyped, StepTyped, PTL DEF Spec

-----------------------------------------------------------------------------
(***************************************************************************)
(* Keys.  Rows are sealed under the key of the secret that made their      *)
(* token, a server uses the key of its secret, and a start that has read   *)
(* the file once finds it so the second time, or disturbed says otherwise. *)
(***************************************************************************)
KeysMatch ==
  /\ \A x \in rows \cup disk : x.sealed = DeriveKey(x.token.by)
  /\ \A p \in Proc : pc[p] = "serving" => key[p] = DeriveKey(hmac[p])
  /\ \A p \in Proc : pc[p] = "opened" => key[p] = DeriveKey(secretFile)

KeyInv == TypeOK /\ (disturbed = FALSE => KeysMatch)

LEMMA Undisturbed ==
  ASSUME TypeOK, Disturb
  PROVE  disturbed' = FALSE => disturbed = FALSE /\ \A p \in Proc : pc[p] # "opened"
BY DEF TypeOK, Disturb

LEMMA KeyCommand ==
  ASSUME KeyInv, TypeOK', NEW p \in Proc, Command(p)
  PROVE  disturbed' = FALSE => KeysMatch'
<1> USE DEF KeyInv, TypeOK
<1>1. CASE CheckAbsent(p)
  BY <1>1 DEF CheckAbsent, Goto, KeysMatch
<1>2. CASE Create(p)
  BY <1>2, Undisturbed DEF Create, Goto, KeysMatch
<1>3. CASE Write(p)
  BY <1>3, Undisturbed DEF Write, Goto, KeysMatch
<1>4. CASE SetMode(p)
  BY <1>4 DEF SetMode, Goto, KeysMatch
<1>5. CASE OpenVault(p)
  BY <1>5 DEF OpenVault, Goto, KeysMatch
<1>6. CASE Serve(p)
  BY <1>6 DEF Serve, Goto, KeysMatch
<1>7. CASE FailToServe(p)
  BY <1>7 DEF FailToServe, Forget, KeysMatch
<1>8. ASSUME NEW v \in Value, Store(p, v) PROVE disturbed' = FALSE => KeysMatch'
  <2> DEFINE t == GenerateToken(v, hmac[p])
             x == Encrypted(t, key[p])
  <2>1. x.sealed = key[p] /\ x.token = t /\ t.by = hmac[p]
    BY Typed
  <2>2. /\ rows' = {y \in rows : y.token # t} \cup {x} /\ disk' = disk
        /\ UNCHANGED <<pc, key, hmac, secretFile, disturbed>> /\ pc[p] = "serving"
    BY <1>8 DEF Store
  <2> HIDE DEF t, x
  <2> QED BY <2>1, <2>2 DEF KeysMatch
<1>9. CASE Forward(p)
  BY <1>9 DEF Forward, KeysMatch
<1> QED
  BY <1>1, <1>2, <1>3, <1>4, <1>5, <1>6, <1>7, <1>8, <1>9 DEF Command

LEMMA KeyStep == KeyInv /\ [Next]_vars => KeyInv'
<1> SUFFICES ASSUME KeyInv, [Next]_vars PROVE KeyInv'
  OBVIOUS
<1>0. TypeOK'
  BY StepTyped DEF KeyInv
<1> SUFFICES disturbed' = FALSE => KeysMatch'
  BY <1>0 DEF KeyInv
<1>1. ASSUME NEW p \in Proc, Command(p) PROVE disturbed' = FALSE => KeysMatch'
  BY <1>0, <1>1, KeyCommand
<1>2. ASSUME NEW p \in Proc, Kill(p) PROVE disturbed' = FALSE => KeysMatch'
  BY <1>2 DEF Kill, Forget, KeyInv, TypeOK, KeysMatch
<1>3. CASE ClearAll
  BY <1>3 DEF ClearAll, KeyInv, KeysMatch
<1>4. CASE Delete
  BY <1>4, Undisturbed DEF Delete, KeyInv, KeysMatch
<1>5. CASE SyncSecret
  BY <1>5 DEF SyncSecret, KeyInv, KeysMatch
<1>6. CASE Checkpoint
  BY <1>6 DEF Checkpoint, KeyInv, KeysMatch
<1>7. CASE PowerFailure
  BY <1>7 DEF PowerFailure, KeyInv, KeysMatch
<1>8. CASE UNCHANGED vars
  BY <1>8 DEF vars, KeyInv, KeysMatch
<1> QED BY <1>1, <1>2, <1>3, <1>4, <1>5, <1>6, <1>7, <1>8 DEF Next

LEMMA KeyInit == Init => KeyInv
BY InitTyped DEF Init, KeyInv, KeysMatch

(***************************************************************************)
(* A serve can read every row whose token it makes, unless its secret was  *)
(* replaced while it started.                                              *)
(***************************************************************************)
THEOREM RowsStayReadable == Spec => []OwnRowsReadable
<1>1. KeyInv => OwnRowsReadable
  BY DEF KeyInv, KeysMatch, OwnRowsReadable, Decrypts
<1> QED BY <1>1, KeyInit, KeyStep, PTL DEF Spec

-----------------------------------------------------------------------------
(***************************************************************************)
(* Rows of tokens.  A token that was stored has its row, or was cleared,   *)
(* until it has been sent; after that a power failure may take the row.    *)
(***************************************************************************)
HasRow(t) == \E x \in rows : x.token = t
OnDisk(t) == \E x \in disk : x.token = t

TokensBacked ==
  /\ \A p \in Proc : \A t \in made[p] : HasRow(t) \/ t \in cleared
  /\ \A t \in sent : HasRow(t) \/ t \in cleared \/ (outage = TRUE /\ ~OnDisk(t))

TokenInv == TypeOK /\ TokensBacked

LEMMA TokenCommand ==
  ASSUME TokenInv, NEW p \in Proc, Command(p)
  PROVE  TokensBacked'
<1> USE DEF TokenInv, TypeOK
<1>1. CASE CheckAbsent(p) \/ Create(p) \/ Write(p) \/ SetMode(p) \/ OpenVault(p) \/ Serve(p)
  <2>1. UNCHANGED <<rows, disk, made, cleared, sent, outage>>
    BY <1>1 DEF CheckAbsent, Create, Write, SetMode, OpenVault, Serve
  <2> QED BY <2>1 DEF TokensBacked, HasRow, OnDisk
<1>2. CASE FailToServe(p)
  BY <1>2 DEF FailToServe, Forget, TokensBacked, HasRow, OnDisk
<1>3. ASSUME NEW v \in Value, Store(p, v) PROVE TokensBacked'
  <2> DEFINE t == GenerateToken(v, hmac[p])
             x == Encrypted(t, key[p])
  <2>1. x.token = t
    BY Typed
  <2>2. /\ rows' = {y \in rows : y.token # t} \cup {x}
        /\ made' = [made EXCEPT ![p] = @ \cup {t}]
        /\ cleared' = cleared \ {t}
        /\ UNCHANGED <<disk, sent, outage>>
    BY <1>3 DEF Store
  <2> HIDE DEF t, x
  <2>3. /\ \E y \in rows' : y.token = t
        /\ \A u : (\E y \in rows : y.token = u) => \E y \in rows' : y.token = u
    BY <2>1, <2>2
  <2>4. \A q \in Proc : \A u \in made'[q] : (\E y \in rows' : y.token = u) \/ u \in cleared'
    <3>1. \A q \in Proc : \A u \in made'[q] : u = t \/ u \in made[q]
      BY <2>2
    <3> QED BY <2>2, <2>3, <3>1 DEF TokensBacked, HasRow
  <2>5. \A u \in sent' : \/ \E y \in rows' : y.token = u
                         \/ u \in cleared'
                         \/ outage' = TRUE /\ ~\E y \in disk' : y.token = u
    BY <2>2, <2>3 DEF TokensBacked, HasRow, OnDisk
  <2> QED BY <2>4, <2>5 DEF TokensBacked, HasRow, OnDisk
<1>4. CASE Forward(p)
  BY <1>4 DEF Forward, TokensBacked, HasRow, OnDisk
<1> QED
  BY <1>1, <1>2, <1>3, <1>4 DEF Command

LEMMA TokenStep == TokenInv /\ [Next]_vars => TokenInv'
<1> SUFFICES ASSUME TokenInv, [Next]_vars PROVE TokenInv'
  OBVIOUS
<1> USE DEF TokensBacked, HasRow, OnDisk
<1>0. TypeOK'
  BY StepTyped DEF TokenInv
<1> SUFFICES TokensBacked'
  BY <1>0 DEF TokenInv
<1>1. ASSUME NEW p \in Proc, Command(p) PROVE TokensBacked'
  BY <1>1, TokenCommand
<1>2. ASSUME NEW p \in Proc, Kill(p) PROVE TokensBacked'
  BY <1>2 DEF Kill, Forget, TokenInv, TypeOK
<1>3. CASE ClearAll
  BY <1>3 DEF ClearAll, TokenInv
<1>4. CASE Delete
  BY <1>4 DEF Delete, TokenInv
<1>5. CASE SyncSecret
  BY <1>5 DEF SyncSecret, TokenInv
<1>6. CASE Checkpoint
  BY <1>6 DEF Checkpoint, TokenInv
<1>7. CASE PowerFailure
  BY <1>7 DEF PowerFailure, TokenInv
<1>8. CASE UNCHANGED vars
  BY <1>8 DEF vars, TokenInv
<1> QED BY <1>1, <1>2, <1>3, <1>4, <1>5, <1>6, <1>7, <1>8 DEF Next

LEMMA TokenInit == Init => TokenInv
BY InitTyped DEF Init, TokenInv, TokensBacked

(***************************************************************************)
(* What has gone upstream can be looked up, but for clears and what a      *)
(* power failure took before it was on the disk.                           *)
(***************************************************************************)
THEOREM SentTokensStayBacked == Spec => []SentTokensBacked
<1>1. TokenInv => SentTokensBacked
  BY DEF TokenInv, TokensBacked, SentTokensBacked, HasRow, OnDisk
<1> QED BY <1>1, TokenInit, TokenStep, PTL DEF Spec

-----------------------------------------------------------------------------
(***************************************************************************)
(* The file while inits run and are not cut short: one that has emptied it *)
(* has it open still and is to write, and one that made it, or follows the *)
(* one that did, has yet to set its mode.                                  *)
(***************************************************************************)
FilePending ==
  /\ \A p \in Proc : pc[p] \in InitLabel => mine[p] \in Secret
  /\ cutShort = FALSE /\ outage = FALSE =>
       /\ secretFile = Empty => \E p \in holds : pc[p] = "created"
       /\ tight = FALSE /\ secretFile # NoFile =>
            \E p \in Proc : pc[p] = "created" \/ pc[p] = "written"

FileInv == TypeOK /\ FilePending

LEMMA FileCommand ==
  ASSUME FileInv, NEW p \in Proc, Command(p)
  PROVE  FilePending'
<1> USE DEF FileInv, TypeOK, InitLabel
<1>1. CASE CheckAbsent(p)
  <2>1. PICK s \in Secret : mine' = [mine EXCEPT ![p] = s]
    BY <1>1 DEF CheckAbsent
  <2> QED BY <1>1, <2>1 DEF CheckAbsent, Goto, FilePending
<1>2. CASE Create(p)
  <2>1. pc'[p] = "created"
    BY <1>2 DEF Create, Goto
  <2> QED BY <1>2, <2>1 DEF Create, Goto, FilePending
<1>3. CASE Write(p)
  <2>1. pc'[p] = "written" /\ pc[p] = "created" /\ \A q \in Proc : q # p => pc'[q] = pc[q]
    BY <1>3 DEF Write, Goto
  <2>2. CASE p \in holds
    <3>1. secretFile' # Empty
      BY <1>3, <2>1, <2>2, InstallationAssumption DEF Write, FilePending
    <3> QED BY <1>3, <2>1, <3>1 DEF Write, Goto, FilePending
  <2>3. CASE p \notin holds
    BY <1>3, <2>1, <2>3 DEF Write, FilePending
  <2> QED BY <2>2, <2>3
<1>4. CASE SetMode(p)
  BY <1>4 DEF SetMode, Goto, FilePending
<1>5. CASE OpenVault(p) \/ Serve(p)
  BY <1>5 DEF OpenVault, Serve, Goto, FilePending
<1>6. CASE FailToServe(p)
  BY <1>6 DEF FailToServe, Forget, FilePending
<1>7. ASSUME NEW v \in Value, Store(p, v) \/ Forward(p) PROVE FilePending'
  <2>1. UNCHANGED <<secretFile, tight, pc, mine, holds, cutShort, outage>>
    BY <1>7 DEF Store, Forward
  <2> QED BY <2>1 DEF FilePending
<1>8. CASE Forward(p)
  <2>1. UNCHANGED <<secretFile, tight, pc, mine, holds, cutShort, outage>>
    BY <1>8 DEF Forward
  <2> QED BY <2>1 DEF FilePending
<1> QED
  BY <1>1, <1>2, <1>3, <1>4, <1>5, <1>6, <1>7, <1>8 DEF Command

LEMMA FileStep == FileInv /\ [Next]_vars => FileInv'
<1> SUFFICES ASSUME FileInv, [Next]_vars PROVE FileInv'
  OBVIOUS
<1>0. TypeOK'
  BY StepTyped DEF FileInv
<1> SUFFICES FilePending'
  BY <1>0 DEF FileInv
<1>1. ASSUME NEW p \in Proc, Command(p) PROVE FilePending'
  BY <1>1, FileCommand
<1>2. ASSUME NEW p \in Proc, Kill(p) PROVE FilePending'
  <2>1. cutShort' = FALSE => cutShort = FALSE /\ pc[p] \notin InitLabel
    BY <1>2 DEF Kill, FileInv, TypeOK
  <2> QED BY <1>2, <2>1 DEF Kill, Forget, FileInv, TypeOK, FilePending, InitLabel
<1>3. CASE ClearAll \/ SyncSecret \/ Checkpoint
  <2>1. UNCHANGED <<secretFile, tight, pc, mine, holds, cutShort, outage>>
    BY <1>3 DEF ClearAll, SyncSecret, Checkpoint
  <2> QED BY <2>1 DEF FilePending, FileInv
<1>4. CASE Delete
  BY <1>4, InstallationAssumption DEF Delete, FileInv, FilePending, Content
<1>5. CASE PowerFailure
  BY <1>5 DEF PowerFailure, FileInv, FilePending, InitLabel
<1>6. CASE UNCHANGED vars
  BY <1>6 DEF vars, FileInv, FilePending
<1> QED BY <1>1, <1>2, <1>3, <1>4, <1>5, <1>6 DEF Next

LEMMA FileInit == Init => FileInv
BY InitTyped, InstallationAssumption DEF Init, FileInv, FilePending, InitLabel, Content

(***************************************************************************)
(* Between inits, if none was cut short, the file is a secret with its     *)
(* mode set, or absent: also if inits overlapped.                          *)
(***************************************************************************)
THEOREM SecretStaysWhole == Spec => []SecretWhole
<1>1. FileInv => SecretWhole
  <2> SUFFICES ASSUME FileInv, Initializing = {}, ~cutShort, ~outage, secretFile # NoFile
               PROVE  secretFile \in Secret /\ tight
    BY DEF SecretWhole
  <2>1. \A p \in Proc : pc[p] # "created" /\ pc[p] # "written"
    BY DEF Initializing, InitLabel
  <2>2. cutShort = FALSE /\ outage = FALSE
    BY DEF FileInv, TypeOK
  <2>3. secretFile # Empty /\ tight # FALSE
    BY <2>1, <2>2 DEF FileInv, FilePending, TypeOK
  <2> QED BY <2>3 DEF FileInv, TypeOK, Content
<1> QED BY <1>1, FileInit, FileStep, PTL DEF Spec

-----------------------------------------------------------------------------
(***************************************************************************)
(* While no inits have overlapped: one is under way at most, the file is   *)
(* still absent when it makes it, and still empty, or deleted, when it     *)
(* writes.                                                                 *)
(***************************************************************************)
AsFound ==
  /\ \A p, q \in Initializing : p = q
  /\ \A p \in Proc :
       /\ pc[p] = "absent" => secretFile = NoFile
       /\ pc[p] = "created" => secretFile \in {Empty, NoFile}

FoundInv == TypeOK /\ (overlapped = FALSE => AsFound)

LEMMA FoundCommand ==
  ASSUME FoundInv, NEW p \in Proc, Command(p), overlapped' = FALSE
  PROVE  AsFound'
<1>0. /\ CheckAbsent(p) => overlapped = FALSE /\ Initializing = {}
      /\ ~CheckAbsent(p) /\ ~SetMode(p) => overlapped = FALSE
  <2>1. CASE CheckAbsent(p)
    BY <2>1 DEF CheckAbsent, FoundInv, TypeOK
  <2>2. CASE ~CheckAbsent(p) /\ ~SetMode(p)
    BY <2>2 DEF Command, Create, Write, OpenVault, Serve, FailToServe, Store, Forward,
      historyVars
  <2> QED BY <2>1, <2>2
<1> USE <1>0 DEF FoundInv, TypeOK, InitLabel, AsFound, Initializing
<1>1. CASE CheckAbsent(p)
  BY <1>1 DEF CheckAbsent, Goto
<1>2. CASE Create(p)
  BY <1>2 DEF Create, Goto
<1>3. CASE Write(p)
  BY <1>3 DEF Write, Goto
<1>4. CASE SetMode(p)
  BY <1>4 DEF SetMode, Goto, Ends
<1>5. CASE OpenVault(p) \/ Serve(p)
  BY <1>5 DEF OpenVault, Serve, Goto
<1>6. CASE FailToServe(p)
  BY <1>6 DEF FailToServe, Forget
<1>7. ASSUME NEW v \in Value, Store(p, v) PROVE AsFound'
  <2>1. UNCHANGED <<secretFile, pc, overlapped>>
    BY <1>7 DEF Store
  <2> QED BY <2>1
<1>8. CASE Forward(p)
  BY <1>8 DEF Forward
<1> QED
  BY <1>1, <1>2, <1>3, <1>4, <1>5, <1>6, <1>7, <1>8 DEF Command

LEMMA FoundStep == FoundInv /\ [Next]_vars => FoundInv'
<1> SUFFICES ASSUME FoundInv, [Next]_vars PROVE FoundInv'
  OBVIOUS
<1>0. TypeOK'
  BY StepTyped DEF FoundInv
<1> SUFFICES ASSUME overlapped' = FALSE PROVE AsFound'
  BY <1>0 DEF FoundInv
<1>1. ASSUME NEW p \in Proc, Command(p) PROVE AsFound'
  BY <1>1, FoundCommand
<1>2. ASSUME NEW p \in Proc, Kill(p) PROVE AsFound'
  BY <1>2 DEF Kill, Forget, Ends, FoundInv, TypeOK, AsFound, Initializing, InitLabel
<1>3. CASE ClearAll \/ SyncSecret \/ Checkpoint
  <2>1. UNCHANGED <<secretFile, pc, overlapped>>
    BY <1>3 DEF ClearAll, SyncSecret, Checkpoint, procVars, historyVars
  <2> QED BY <2>1 DEF FoundInv, AsFound, Initializing
<1>4. CASE Delete
  BY <1>4 DEF Delete, FoundInv, AsFound, Initializing, InitLabel
<1>5. CASE PowerFailure
  BY <1>5 DEF PowerFailure, FoundInv, AsFound, Initializing, InitLabel
<1>6. CASE UNCHANGED vars
  BY <1>6 DEF vars, procVars, fileVars, historyVars, FoundInv, AsFound, Initializing
<1> QED BY <1>1, <1>2, <1>3, <1>4, <1>5, <1>6 DEF Next

LEMMA FoundInit == Init => FoundInv
BY InitTyped DEF Init, FoundInv, AsFound, Initializing, InitLabel

LEMMA KeptStep ==
  FoundInv /\ [Next]_vars =>
    [(secretFile \in Secret /\ secretFile' # secretFile /\ ~overlapped) =>
       (Delete \/ PowerFailure)]_vars
<1> SUFFICES ASSUME FoundInv, Next, secretFile \in Secret, secretFile' # secretFile,
                    ~overlapped
             PROVE  Delete \/ PowerFailure
  OBVIOUS
<1>1. secretFile # NoFile /\ secretFile # Empty
  BY InstallationAssumption DEF Content
<1>2. ASSUME NEW p \in Proc, Command(p) PROVE FALSE
  <2>1. ~Create(p) /\ ~Write(p)
    BY <1>1 DEF Create, Write, FoundInv, TypeOK, AsFound
  <2>2. \A v \in Value : ~Store(p, v)
    BY DEF Store
  <2>3. ~CheckAbsent(p) /\ ~SetMode(p) /\ ~OpenVault(p) /\ ~Serve(p) /\ ~FailToServe(p) /\ ~Forward(p)
    BY DEF CheckAbsent, SetMode, OpenVault, Serve, FailToServe, Forward
  <2> QED BY <1>2, <2>1, <2>2, <2>3 DEF Command
<1>3. ASSUME NEW p \in Proc, Kill(p) PROVE FALSE
  BY <1>3 DEF Kill
<1>4. ~ClearAll /\ ~SyncSecret /\ ~Checkpoint
  BY DEF ClearAll, SyncSecret, Checkpoint
<1> QED BY <1>2, <1>3, <1>4 DEF Next

(***************************************************************************)
(* As long as no inits have overlapped, none writes over a secret, over    *)
(* any kills, deletes, starts and power failures.                          *)
(***************************************************************************)
THEOREM SecretStays == Spec => SecretKept
<1>1. FoundInv /\ [Next]_vars => FoundInv'
  BY FoundStep
<1> QED BY <1>1, FoundInit, KeptStep, PTL DEF Spec, SecretKept
=============================================================================
