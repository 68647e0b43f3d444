---------------------------- MODULE ProxyProofs -----------------------------
(***************************************************************************)
(* Proofs about Proxy, for any requests, bodies, values and times.         *)
(***************************************************************************)
EXTENDS Proxy, TLAPS

(* A value's token is a token, and no value is one. *)
LEMMA GenerateTokenType ==
  ASSUME NEW v \in Value
  PROVE  GenerateToken(v) \in Token /\ GenerateToken(v) \notin Value
BY TokensAssumption DEF GenerateToken, Token

(* Wrapping gives a 64-bit number, and leaves one as it is. *)
LEMMA SignedType == ASSUME NEW n \in Int PROVE Signed(n) \in I64
BY SMT, VaultAssumption DEF Signed, I64

LEMMA SignedSame == ASSUME NEW n \in I64 PROVE Signed(n) = n
BY SMT, VaultAssumption DEF Signed, I64

(***************************************************************************)
(* The time to live, added to any reading of the clock, is less than 2^63, *)
(* as it is for up to some 2.5 * 10^15 hours.                              *)
(***************************************************************************)
TtlFits == Ttl + MaxTime < Half

LEMMA ExpiresAtFits ==
  ASSUME TtlFits, NEW reading \in Time
  PROVE  ExpiresAt(reading) = reading + Ttl
<1>1. Ttl \in Nat /\ TtlHours \in Nat /\ Ttl < Half
  BY SMT, VaultAssumption DEF Ttl, TtlFits
<1>2. TtlHours =< Ttl
  BY SMT, VaultAssumption DEF Ttl
<1>3. TtlHours \in I64 /\ Ttl \in I64
  BY <1>1, <1>2, VaultAssumption DEF I64
<1>4. Signed(TtlHours) = TtlHours /\ Signed(TtlHours * Hour) = Ttl
  BY <1>3, SignedSame DEF Ttl
<1>5. reading + Ttl \in I64
  BY <1>1, VaultAssumption DEF I64, Time, TtlFits
<1>6. Signed(reading + Ttl) = reading + Ttl
  BY <1>5, SignedSame
<1> QED BY <1>4, <1>6 DEF ExpiresAt

LEMMA BlankType == Blank \in [Place -> Item]
BY ProxyAssumption DEF Blank

(***************************************************************************)
(* The places a handler has still to replace: while it stores they hold    *)
(* the values it found, while it restores they hold tokens the upstream    *)
(* wrote, and between the two there are none.                              *)
(***************************************************************************)
PendOK(r) ==
  /\ pc[r] \in {"idle", "detect", "hung", "upstream"} => pend[r] = {}
  /\ pc[r] = "store" => \A p \in pend[r] : body[r][p] \in Value
  /\ pc[r] \in {"detok", "select"} =>
       \A p \in pend[r] : reply[r][p] = resp[r][p] /\ resp[r][p] \in Token

TypeInv == TypeOK /\ \A r \in Req : PendOK(r)

(***************************************************************************)
(* Type correctness: in particular rows hold values under tokens and       *)
(* expire at 64-bit times, and the clock readings are times.               *)
(***************************************************************************)
LEMMA TypeStep == TypeInv /\ [Next]_vars => TypeInv'
<1> SUFFICES ASSUME TypeInv, [Next]_vars PROVE TypeInv'
  OBVIOUS
<1> USE VaultAssumption, ProxyAssumption, BlankType DEF TypeInv
<1>1. ASSUME NEW r \in Req, NEW b \in Requests, Accept(r, b) PROVE TypeInv'
  <2>1. TypeOK'
    BY <1>1 DEF TypeOK, VaultTypeOK, Accept, Goto, Label, vaultVars
  <2> QED
    BY <1>1, <2>1 DEF TypeOK, PendOK, Accept, Goto
<1>2. ASSUME NEW r \in Req, Return(r) PROVE TypeInv'
  <2>1. TypeOK'
    BY <1>2 DEF TypeOK, VaultTypeOK, Return, Goto, Label, vaultVars, Time
  <2> QED
    BY <1>2, <2>1 DEF TypeOK, PendOK, Return, Goto
<1>3. ASSUME NEW r \in Req, NEW l \in Leaf, NEW found \in SUBSET Place,
             Detect(r, l, found)
      PROVE  TypeInv'
  <2>1. /\ pc[r] = "detect" /\ pend[r] = {}
        /\ \A p \in found : body[r][p] \in Value
        /\ todo' = [todo EXCEPT ![r] = @ \ {l}]
        /\ UNCHANGED <<rows, now, orig, body, resp, reply, start, cleared, cli>>
    BY <1>3 DEF Detect, PendOK, vaultVars
  <2>2. CASE found = {}
    <3>1. UNCHANGED <<pc, pend, seen>>
      BY <1>3, <2>2 DEF Detect
    <3> QED
      BY <2>1, <3>1 DEF TypeOK, VaultTypeOK, PendOK
  <2>3. CASE found # {}
    <3>1. /\ pc' = [pc EXCEPT ![r] = "store"]
          /\ pend' = [pend EXCEPT ![r] = found]
          /\ seen' = [seen EXCEPT ![r] = now]
      BY <1>3, <2>3 DEF Detect, Goto
    <3>2. TypeOK'
      BY <2>1, <3>1 DEF TypeOK, VaultTypeOK, Label
    <3>3. ASSUME NEW q \in Req PROVE PendOK(q)'
      BY <2>1, <3>1 DEF TypeOK, PendOK
    <3> QED
      BY <3>2, <3>3
  <2> QED
    BY <2>2, <2>3
<1>4. ASSUME NEW r \in Req, NEW p \in Place, StoreEntity(r, p) PROVE TypeInv'
  <2>0. body[r][p] \in Value
    BY <1>4 DEF PendOK, StoreEntity
  <2>1. GenerateToken(body[r][p]) \in Token
    BY <2>0, GenerateTokenType
  <2>2. ExpiresAt(seen[r]) \in I64
    <3>1. Signed(TtlHours) \in Int
      BY SignedType DEF I64
    <3>2. Signed(Signed(TtlHours) * Hour) \in Int
      <4>1. Signed(TtlHours) * Hour \in Int
        BY <3>1
      <4> QED BY <4>1, SignedType DEF I64
    <3>3. seen[r] \in Int
      BY DEF TypeOK, Time
    <3> QED BY <3>2, <3>3, SignedType DEF ExpiresAt
  <2>3. rows' \subseteq Row
    BY <1>4, <2>0, <2>1, <2>2 DEF TypeOK, VaultTypeOK, StoreEntity, Store, Row
  <2>4. body' \in [Req -> [Place -> Item]]
    BY <1>4, <2>1 DEF TypeOK, StoreEntity, Item
  <2>5. TypeOK'
    <3>1. pc' \in [Req -> Label] /\ pend' \in [Req -> SUBSET Place]
      BY <1>4 DEF TypeOK, StoreEntity, Goto, Label
    <3>2. now' = now /\ UNCHANGED <<orig, resp, reply, todo, seen, start, cleared, cli>>
      BY <1>4 DEF StoreEntity, Store
    <3> QED BY <2>3, <2>4, <3>1, <3>2 DEF TypeOK, VaultTypeOK
  <2> QED
    BY <1>4, <2>5 DEF TypeOK, PendOK, StoreEntity, Goto
<1>5. ASSUME NEW r \in Req, Forward(r) PROVE TypeInv'
  BY <1>5 DEF TypeOK, VaultTypeOK, PendOK, Forward, Goto, Label, vaultVars
<1>6. ASSUME NEW r \in Req, NEW b \in Responses, Answer(r, b) PROVE TypeInv'
  <2>1. TypeOK'
    BY <1>6 DEF TypeOK, VaultTypeOK, Answer, TokenPlaces, Goto, Label, vaultVars
  <2> QED
    BY <1>6, <2>1 DEF TypeOK, PendOK, Answer, TokenPlaces, Goto
<1>7. ASSUME NEW r \in Req, ReadClock(r) PROVE TypeInv'
  BY <1>7 DEF TypeOK, VaultTypeOK, PendOK, ReadClock, Goto, Label, vaultVars
<1>8. ASSUME NEW r \in Req, NEW p \in Place, Restore(r, p) PROVE TypeInv'
  <2>1. \A x \in Selected(reply[r][p], seen[r]) : x.value \in Item
    BY DEF TypeOK, VaultTypeOK, Selected, Row, Item
  <2>2. ASSUME NEW v \in Item, reply' = [reply EXCEPT ![r][p] = v]
        PROVE  reply' \in [Req -> [Place -> Item]]
    BY <2>2 DEF TypeOK
  <2>3. ASSUME UNCHANGED reply PROVE reply' \in [Req -> [Place -> Item]]
    BY <2>3 DEF TypeOK
  <2>4. reply' \in [Req -> [Place -> Item]]
    <3>1. CASE UNCHANGED reply
      BY <2>3, <3>1
    <3>2. CASE \E x \in Selected(reply[r][p], seen[r]) :
                 reply' = [reply EXCEPT ![r][p] = x.value]
      BY <2>1, <2>2, <3>2
    <3> QED
      BY <1>8, <3>1, <3>2 DEF Restore
  <2>5. TypeOK'
    BY <1>8, <2>4 DEF TypeOK, VaultTypeOK, Restore, Goto, Label, vaultVars
  <2>6. \A q \in Req, o \in Place : q # r \/ o # p => reply'[q][o] = reply[q][o]
    BY <1>8 DEF Restore, TypeOK
  <2> QED
    BY <1>8, <2>5, <2>6 DEF TypeOK, PendOK, Restore, Goto
<1>9. ASSUME CliReadClock \/ CliPurge \/ CliClear \/ Tick PROVE TypeInv'
  <2>1. CASE CliReadClock
    BY <2>1 DEF TypeOK, VaultTypeOK, PendOK, CliReadClock, vaultVars, reqVars
  <2>2. CASE CliPurge
    BY <2>2 DEF TypeOK, VaultTypeOK, PendOK, CliPurge, PurgeExpired, reqVars
  <2>3. CASE CliClear
    BY <2>3 DEF TypeOK, VaultTypeOK, PendOK, CliClear, ClearAll, Serving
  <2>4. CASE Tick
    BY <2>4 DEF TypeOK, VaultTypeOK, PendOK, Tick, Time, reqVars
  <2> QED
    BY <1>9, <2>1, <2>2, <2>3, <2>4
<1>10. ASSUME Restart PROVE TypeInv'
  BY <1>10 DEF TypeOK, VaultTypeOK, PendOK, Restart, Label, Time, vaultVars
<1>11. ASSUME UNCHANGED vars PROVE TypeInv'
  BY <1>11 DEF TypeOK, VaultTypeOK, PendOK, vars, vaultVars, reqVars
<1>12. ASSUME NEW r \in Req, Hang(r) PROVE TypeInv'
  BY <1>12 DEF TypeOK, VaultTypeOK, PendOK, Hang, Goto, Label, vaultVars
<1> QED
  BY <1>1, <1>2, <1>3, <1>4, <1>5, <1>6, <1>7, <1>8, <1>9, <1>10, <1>11, <1>12
     DEF Next, Handle, Reply, Fail, Relay

-----------------------------------------------------------------------------
(***************************************************************************)
(* What has become of the client's body: each place is as the client sent  *)
(* it or holds the token of the value sent; and where the tokenizer has    *)
(* been, in a leaf that is no longer to do and at a place that is not      *)
(* pending, no structured value is left.                                   *)
(***************************************************************************)
BodyOK(r) ==
  /\ \A p \in Place : \/ body[r][p] = orig[r][p]
                      \/ /\ orig[r][p] \in Value
                         /\ body[r][p] = GenerateToken(orig[r][p])
  /\ pc[r] \in {"detect", "store", "upstream"} =>
       \A p \in Place :
         LeafOf[p] \notin ProtocolLeaf \cup todo[r] /\ p \notin pend[r] =>
           body[r][p] \notin Structured
  /\ pc[r] = "upstream" => todo[r] = {}

BodyInv == \A r \in Req : BodyOK(r)

LEMMA BodyStep == TypeInv /\ BodyInv /\ [Next]_vars => BodyInv'
<1> SUFFICES ASSUME TypeInv, BodyInv, [Next]_vars, NEW q \in Req
             PROVE  BodyOK(q)'
  BY DEF BodyInv
<1> USE ProxyAssumption DEF BodyInv, TypeInv
<1>1. ASSUME NEW r \in Req, NEW b \in Requests, Accept(r, b) PROVE BodyOK(q)'
  BY <1>1 DEF TypeOK, BodyOK, Accept, Goto
<1>2. ASSUME NEW r \in Req, Return(r) PROVE BodyOK(q)'
  BY <1>2 DEF TypeOK, BodyOK, Return, Goto
<1>3. ASSUME NEW r \in Req, NEW l \in Leaf, NEW found \in SUBSET Place,
             Detect(r, l, found)
      PROVE  BodyOK(q)'
  <2>1. /\ pc[r] = "detect" /\ pend[r] = {}
        /\ \A p \in Place : LeafOf[p] = l /\ p \notin found =>
             body[r][p] \notin Structured
        /\ todo' = [todo EXCEPT ![r] = @ \ {l}]
        /\ UNCHANGED <<orig, body>>
    BY <1>3 DEF Detect, PendOK
  <2>2. /\ pc' = [pc EXCEPT ![r] = IF found = {} THEN "detect" ELSE "store"]
        /\ pend' = [pend EXCEPT ![r] = found]
    <3>1. CASE found = {}
      BY <1>3, <2>1, <3>1 DEF Detect, TypeOK
    <3>2. CASE found # {}
      BY <1>3, <3>2 DEF Detect, Goto
    <3> QED
      BY <3>1, <3>2
  <2> QED
    BY <2>1, <2>2 DEF TypeOK, BodyOK
<1>4. ASSUME NEW r \in Req, NEW p \in Place, StoreEntity(r, p) PROVE BodyOK(q)'
  <2>1. body[r][p] \in Value /\ body[r][p] = orig[r][p]
    BY <1>4, GenerateTokenType DEF StoreEntity, PendOK, BodyOK
  <2>2. GenerateToken(body[r][p]) \notin Structured
    BY <2>1, GenerateTokenType
  <2>3. /\ body' = [body EXCEPT ![r][p] = GenerateToken(body[r][p])]
        /\ pend' = [pend EXCEPT ![r] = @ \ {p}]
        /\ pc[r] = "store"
        /\ pc' = pc \/ pc' = [pc EXCEPT ![r] = "detect"]
        /\ UNCHANGED <<orig, todo>>
    BY <1>4 DEF StoreEntity, Goto
  <2>4. /\ body'[r][p] = GenerateToken(body[r][p])
        /\ \A s \in Req, o \in Place : s # r \/ o # p => body'[s][o] = body[s][o]
    BY <2>3 DEF TypeOK
  <2>5. CASE q = r
    BY <2>1, <2>2, <2>3, <2>4, <2>5 DEF TypeOK, BodyOK
  <2>6. CASE q # r
    BY <2>3, <2>4, <2>6 DEF TypeOK, BodyOK
  <2> QED
    BY <2>5, <2>6
<1>5. ASSUME NEW r \in Req, Forward(r) PROVE BodyOK(q)'
  BY <1>5 DEF TypeOK, BodyOK, Forward, Goto
<1>6. ASSUME NEW r \in Req, NEW b \in Responses, Answer(r, b) PROVE BodyOK(q)'
  BY <1>6 DEF TypeOK, BodyOK, Answer, Goto
<1>7. ASSUME NEW r \in Req, ReadClock(r) PROVE BodyOK(q)'
  BY <1>7 DEF TypeOK, BodyOK, ReadClock, Goto
<1>8. ASSUME NEW r \in Req, NEW p \in Place, Restore(r, p) PROVE BodyOK(q)'
  BY <1>8 DEF TypeOK, BodyOK, Restore, Goto
<1>9. ASSUME CliReadClock \/ CliPurge \/ CliClear \/ Tick \/ UNCHANGED vars
      PROVE  BodyOK(q)'
  BY <1>9 DEF BodyOK, CliReadClock, CliPurge, CliClear, Tick, vars, reqVars
<1>10. ASSUME Restart PROVE BodyOK(q)'
  BY <1>10 DEF BodyOK, Restart
<1>11. ASSUME NEW r \in Req, Hang(r) PROVE BodyOK(q)'
  BY <1>11 DEF TypeOK, BodyOK, Hang, Goto
<1> QED
  BY <1>1, <1>2, <1>3, <1>4, <1>5, <1>6, <1>7, <1>8, <1>9, <1>10, <1>11
     DEF Next, Handle, Reply, Fail, Relay

LEMMA InitInv == Init => TypeInv /\ BodyInv
BY BlankType, VaultAssumption
   DEF Init, VaultInit, TypeInv, TypeOK, VaultTypeOK, PendOK, Label, Time,
       NoPurge, BodyInv, BodyOK

(* What the variables hold, in every reachable state. *)
THEOREM TypeCorrect == Spec => []TypeOK
<1>1. Init => TypeInv
  BY InitInv
<1>2. TypeInv => TypeOK
  BY DEF TypeInv
<1> QED
  BY <1>1, <1>2, TypeStep, PTL DEF Spec

(***************************************************************************)
(* A value of a type the regex detector knows is never in a tokenized leaf *)
(* of a body that has gone upstream.                                       *)
(***************************************************************************)
THEOREM NothingStructuredForwarded == Spec => []StructuredNeverForwarded
<1>1. TypeInv /\ BodyInv => StructuredNeverForwarded
  BY ProxyAssumption
     DEF TypeInv, PendOK, BodyInv, BodyOK, StructuredNeverForwarded
<1> QED
  BY <1>1, InitInv, TypeStep, BodyStep, PTL DEF Spec

-----------------------------------------------------------------------------
(***************************************************************************)
(* Rows are keyed by the token of their value, and so what the detokenizer *)
(* has put in a reply stands for the token it took the place of.           *)
(***************************************************************************)
RowsKeyed == \A x \in rows : x.token = GenerateToken(x.value)

ReplyOK(r) ==
  pc[r] \in {"detok", "select"} =>
    \A p \in Place :
      \/ reply[r][p] = resp[r][p]
      \/ /\ resp[r][p] \in Token
         /\ reply[r][p] \in Value
         /\ GenerateToken(reply[r][p]) = resp[r][p]

KeyInv == RowsKeyed /\ \A r \in Req : ReplyOK(r)

LEMMA RowsKeyedStep == TypeInv /\ RowsKeyed /\ [Next]_vars => RowsKeyed'
<1> SUFFICES ASSUME RowsKeyed, [Next]_vars PROVE RowsKeyed'
  OBVIOUS
<1>1. ASSUME NEW r \in Req, NEW p \in Place, StoreEntity(r, p) PROVE RowsKeyed'
  BY <1>1 DEF StoreEntity, Store, RowsKeyed
<1>2. ASSUME rows' \subseteq rows PROVE RowsKeyed'
  BY <1>2 DEF RowsKeyed
<1>3. (\E r \in Req, p \in Place : StoreEntity(r, p)) \/ rows' \subseteq rows
  BY DEF Next, Handle, Hang, Accept, Detect, Forward, Answer, Relay, ReadClock,
         Restore, Reply, Fail, Return, CliReadClock, CliPurge, PurgeExpired,
         CliClear, ClearAll, Restart, Tick, vars, vaultVars
<1> QED
  BY <1>1, <1>2, <1>3

LEMMA ReplyStep == TypeInv /\ KeyInv /\ [Next]_vars => KeyInv'
<1> SUFFICES ASSUME TypeInv, KeyInv, [Next]_vars, NEW q \in Req
             PROVE  ReplyOK(q)'
  BY RowsKeyedStep DEF KeyInv
<1> USE ProxyAssumption DEF KeyInv, TypeInv
<1>1. ASSUME NEW r \in Req, NEW b \in Requests, Accept(r, b) PROVE ReplyOK(q)'
  BY <1>1 DEF TypeOK, ReplyOK, Accept, Goto
<1>2. ASSUME NEW r \in Req, Return(r) PROVE ReplyOK(q)'
  BY <1>2 DEF TypeOK, ReplyOK, Return, Goto
<1>3. ASSUME NEW r \in Req, NEW l \in Leaf, NEW found \in SUBSET Place,
             Detect(r, l, found)
      PROVE  ReplyOK(q)'
  <2>1. /\ pc[r] = "detect"
        /\ pc' = pc \/ pc' = [pc EXCEPT ![r] = "store"]
        /\ UNCHANGED <<resp, reply>>
    BY <1>3 DEF Detect, Goto
  <2> QED
    BY <2>1 DEF TypeOK, ReplyOK
<1>4. ASSUME NEW r \in Req, NEW p \in Place, StoreEntity(r, p) PROVE ReplyOK(q)'
  BY <1>4 DEF TypeOK, ReplyOK, StoreEntity, Goto
<1>5. ASSUME NEW r \in Req, Forward(r) PROVE ReplyOK(q)'
  BY <1>5 DEF TypeOK, ReplyOK, Forward, Goto
<1>6. ASSUME NEW r \in Req, NEW b \in Responses, Answer(r, b) PROVE ReplyOK(q)'
  BY <1>6 DEF TypeOK, ReplyOK, Answer, Goto
<1>7. ASSUME NEW r \in Req, ReadClock(r) PROVE ReplyOK(q)'
  BY <1>7 DEF TypeOK, ReplyOK, ReadClock, Goto
<1>8. ASSUME NEW r \in Req, NEW p \in Place, Restore(r, p) PROVE ReplyOK(q)'
  <2>1. reply[r][p] = resp[r][p] /\ resp[r][p] \in Token
    BY <1>8 DEF Restore, PendOK
  <2>2. \A x \in Selected(reply[r][p], seen[r]) :
          x.value \in Value /\ GenerateToken(x.value) = resp[r][p]
    BY <2>1 DEF TypeOK, VaultTypeOK, Row, Selected, RowsKeyed
  <2>3. /\ \/ reply'[r][p] = reply[r][p]
           \/ \E x \in Selected(reply[r][p], seen[r]) : reply'[r][p] = x.value
        /\ \A s \in Req, o \in Place : s # r \/ o # p => reply'[s][o] = reply[s][o]
    BY <1>8 DEF Restore, TypeOK
  <2>4. pc[r] = "select" /\ pc' = [pc EXCEPT ![r] = "detok"] /\ UNCHANGED resp
    BY <1>8 DEF Restore, Goto
  <2> QED
    BY <2>1, <2>2, <2>3, <2>4 DEF TypeOK, ReplyOK
<1>9. ASSUME CliReadClock \/ CliPurge \/ CliClear \/ Tick \/ UNCHANGED vars
      PROVE  ReplyOK(q)'
  BY <1>9 DEF ReplyOK, CliReadClock, CliPurge, CliClear, Tick, vars, reqVars
<1>10. ASSUME Restart PROVE ReplyOK(q)'
  BY <1>10 DEF ReplyOK, Restart
<1>11. ASSUME NEW r \in Req, Hang(r) PROVE ReplyOK(q)'
  BY <1>11 DEF TypeOK, ReplyOK, Hang, Goto
<1> QED
  BY <1>1, <1>2, <1>3, <1>4, <1>5, <1>6, <1>7, <1>8, <1>9, <1>10, <1>11
     DEF Next, Handle, Reply, Fail, Relay

LEMMA InitKeyInv == Init => KeyInv
BY DEF Init, VaultInit, KeyInv, RowsKeyed, ReplyOK

(***************************************************************************)
(* Where no two values share a token, nobody gets another value back for   *)
(* the one he sent, however requests, purges, clears and restarts          *)
(* interleave.                                                             *)
(***************************************************************************)
THEOREM RepliesFaithful == NoCollision => (Spec => []ReplyFaithful)
<1> SUFFICES ASSUME NoCollision PROVE Spec => []ReplyFaithful
  OBVIOUS
<1>1. TypeInv /\ BodyInv /\ KeyInv => ReplyFaithful
  <2> SUFFICES ASSUME TypeInv, BodyInv, KeyInv, NEW r \in Req, Replying(r),
                      NEW p \in Place
               PROVE  /\ resp[r][p] \notin Token => reply[r][p] = resp[r][p]
                      /\ \A q \in Place :
                           OwnToken(r, q) /\ resp[r][p] = body[r][q] =>
                             reply[r][p] \in {resp[r][p], orig[r][q]}
    BY DEF ReplyFaithful
  <2>1. \/ reply[r][p] = resp[r][p]
        \/ /\ resp[r][p] \in Token
           /\ reply[r][p] \in Value
           /\ GenerateToken(reply[r][p]) = resp[r][p]
    BY DEF KeyInv, ReplyOK, Replying
  <2>2. ASSUME NEW q \in Place, OwnToken(r, q)
        PROVE  orig[r][q] \in Value /\ body[r][q] = GenerateToken(orig[r][q])
    BY <2>2, TokensAssumption DEF BodyInv, BodyOK, OwnToken
  <2> QED
    BY <2>1, <2>2 DEF NoCollision
<1> QED
  BY <1>1, InitInv, InitKeyInv, TypeStep, BodyStep, ReplyStep, PTL DEF Spec

-----------------------------------------------------------------------------
(***************************************************************************)
(* Time: a request that is live is within its lifetime, and a reading of   *)
(* the clock is as recent as the request, or the purge, that made it.      *)
(***************************************************************************)
TimeOK(r) ==
  Live(r) =>
    /\ start[r] =< now
    /\ now =< start[r] + Lifetime
    /\ pc[r] \in {"store", "select"} => start[r] =< seen[r] /\ seen[r] =< now

TimeInv == cli =< now /\ \A r \in Req : TimeOK(r)

LEMMA TimeStep == TypeInv /\ TimeInv /\ [Next]_vars => TimeInv'
<1> SUFFICES ASSUME TypeInv, TimeInv, [Next]_vars PROVE TimeInv'
  OBVIOUS
<1> USE VaultAssumption, ProxyAssumption DEF TimeInv, TypeInv, Serving, Hung, Live
<1>1. ASSUME NEW r \in Req, NEW b \in Requests, Accept(r, b) PROVE TimeInv'
  BY <1>1 DEF TypeOK, VaultTypeOK, Time, TimeOK, Accept, Goto, vaultVars
<1>2. ASSUME NEW r \in Req, Return(r) PROVE TimeInv'
  BY <1>2 DEF TypeOK, TimeOK, Return, Goto, vaultVars
<1>3. ASSUME NEW r \in Req, NEW l \in Leaf, NEW found \in SUBSET Place,
             Detect(r, l, found)
      PROVE  TimeInv'
  <2>1. /\ pc[r] = "detect"
        /\ \/ UNCHANGED <<pc, seen>>
           \/ /\ pc' = [pc EXCEPT ![r] = "store"]
              /\ seen' = [seen EXCEPT ![r] = now]
        /\ UNCHANGED <<now, start, cli>>
    BY <1>3 DEF Detect, Goto, vaultVars
  <2> QED
    BY <2>1 DEF TypeOK, VaultTypeOK, Time, TimeOK
<1>4. ASSUME NEW r \in Req, NEW p \in Place, StoreEntity(r, p) PROVE TimeInv'
  BY <1>4 DEF TypeOK, TimeOK, StoreEntity, Store, Goto
<1>5. ASSUME NEW r \in Req, Forward(r) PROVE TimeInv'
  BY <1>5 DEF TypeOK, TimeOK, Forward, Goto, vaultVars
<1>6. ASSUME NEW r \in Req, NEW b \in Responses, Answer(r, b) PROVE TimeInv'
  BY <1>6 DEF TypeOK, TimeOK, Answer, Goto, vaultVars
<1>7. ASSUME NEW r \in Req, ReadClock(r) PROVE TimeInv'
  BY <1>7 DEF TypeOK, VaultTypeOK, Time, TimeOK, ReadClock, Goto, vaultVars
<1>8. ASSUME NEW r \in Req, NEW p \in Place, Restore(r, p) PROVE TimeInv'
  BY <1>8 DEF TypeOK, TimeOK, Restore, Goto, vaultVars
<1>9. ASSUME CliReadClock \/ CliPurge \/ CliClear \/ UNCHANGED vars
      PROVE  TimeInv'
  BY <1>9 DEF TypeOK, VaultTypeOK, Time, TimeOK, NoPurge, CliReadClock, CliPurge,
              PurgeExpired, CliClear, ClearAll, vars, vaultVars, reqVars
<1>10. ASSUME Tick PROVE TimeInv'
  BY <1>10 DEF TypeOK, VaultTypeOK, Time, TimeOK, NoPurge, Tick, reqVars
<1>11. ASSUME Restart PROVE TimeInv'
  BY <1>11 DEF TimeOK, Restart, vaultVars
<1>12. ASSUME NEW r \in Req, Hang(r) PROVE TimeInv'
  BY <1>12 DEF TypeOK, TimeOK, Hang, Goto, vaultVars
<1> QED
  BY <1>1, <1>2, <1>3, <1>4, <1>5, <1>6, <1>7, <1>8, <1>9, <1>10, <1>11, <1>12
     DEF Next, Handle, Reply, Fail, Relay

(* A step that leaves the bodies alone makes no token. *)
LEMMA OwnTokenFrame ==
  ASSUME NEW r \in Req, NEW q \in Place, UNCHANGED <<orig, body>>
  PROVE  OwnToken(r, q)' <=> OwnToken(r, q)
BY DEF OwnToken

(* The rows and bodies as they are, a request live was live before. *)
LEMMA OutliveFrame ==
  ASSUME OwnRowsOutlive, UNCHANGED <<rows, orig, body, start, cleared>>,
         \A r \in Req : Live(r)' => Live(r)
  PROVE  OwnRowsOutlive'
BY DEF OwnRowsOutlive, OwnToken

(***************************************************************************)
(* The lower bound on the expiry of a request's rows is inductive: a store *)
(* of the same token by another request has a reading no older than        *)
(* Lifetime, and a purge's reading is below the bound.                     *)
(***************************************************************************)
LEMMA OutliveStep ==
  ASSUME NoCollision, TtlFits, 2 * Lifetime < Ttl,
         TypeInv, BodyInv, TimeInv, OwnRowsOutlive, [Next]_vars
  PROVE  OwnRowsOutlive'
<1> USE VaultAssumption, ProxyAssumption DEF TypeInv
<1>1. ASSUME NEW r \in Req, NEW b \in Requests, Accept(r, b)
      PROVE  OwnRowsOutlive'
  <2>1. ASSUME NEW q \in Place PROVE ~OwnToken(r, q)'
    BY <1>1, TokensAssumption DEF OwnToken, Accept, TypeOK
  <2>2. ASSUME NEW s \in Req, s # r
        PROVE  /\ Live(s)' = Live(s)
               /\ start'[s] = start[s]
               /\ \A q \in Place : /\ body'[s][q] = body[s][q]
                                   /\ orig'[s][q] = orig[s][q]
    BY <1>1, <2>2 DEF TypeOK, Accept, Goto, Serving, Hung, Live
  <2> QED
    BY <1>1, <2>1, <2>2 DEF OwnRowsOutlive, OwnToken, Accept, vaultVars
<1>2. ASSUME NEW r \in Req, Return(r) PROVE OwnRowsOutlive'
  <2>1. ~Live(r)'
    BY <1>2 DEF Return, Goto, Serving, Hung, Live, Hung, Live, TypeOK
  <2>2. ASSUME NEW s \in Req, s # r
        PROVE  /\ Live(s)' = Live(s)
               /\ start'[s] = start[s] /\ cleared'[s] = cleared[s]
               /\ body'[s] = body[s] /\ orig'[s] = orig[s]
    BY <1>2, <2>2 DEF TypeOK, Return, Goto, Serving, Hung, Live
  <2> QED
    BY <1>2, <2>1, <2>2 DEF OwnRowsOutlive, OwnToken, Return, vaultVars
<1>3. ASSUME NEW r \in Req, NEW l \in Leaf, NEW found \in SUBSET Place,
             Detect(r, l, found)
      PROVE  OwnRowsOutlive'
  BY <1>3, OutliveFrame DEF TypeOK, Detect, Goto, Serving, Hung, Live, vaultVars
<1>4. ASSUME NEW r \in Req, NEW p \in Place, StoreEntity(r, p)
      PROVE  OwnRowsOutlive'
  <2> DEFINE v == body[r][p]
             t == GenerateToken(v)
             new == [token |-> t, value |-> v, expires |-> ExpiresAt(seen[r])]
  <2>1. v \in Value /\ v = orig[r][p]
    BY <1>4, GenerateTokenType DEF StoreEntity, PendOK, BodyInv, BodyOK
  <2>2. /\ rows' = {x \in rows : x.token # t} \cup {new}
        /\ UNCHANGED <<now, orig, start, cleared>>
        /\ body'[r][p] = t
        /\ \A s \in Req, o \in Place : s # r \/ o # p => body'[s][o] = body[s][o]
        /\ \A s \in Req : Live(s)' = Live(s)
    BY <1>4 DEF StoreEntity, Store, TypeOK, Goto, Serving, Hung, Live
  <2>3. ASSUME NEW s \in Req, Live(s)
        PROVE  new.expires + Lifetime >= start[s] + Ttl
    <3>1. start[r] =< seen[r] /\ now =< start[r] + Lifetime /\ start[s] =< now
      BY <1>4, <2>3 DEF StoreEntity, TimeInv, TimeOK, Serving, Hung, Live
    <3>2. ExpiresAt(seen[r]) = seen[r] + Ttl
      BY ExpiresAtFits DEF TypeOK
    <3>3. Ttl \in Nat
      BY SMT, VaultAssumption DEF Ttl
    <3> QED
      BY <3>1, <3>2, <3>3 DEF TypeOK, VaultTypeOK, Time
  <2> SUFFICES ASSUME NEW s \in Req, Live(s), ~cleared[s], NEW q \in Place,
                      OwnToken(s, q)'
               PROVE  \E x \in rows' : /\ x.token = body'[s][q]
                                       /\ x.value = orig[s][q]
                                       /\ x.expires + Lifetime >= start[s] + Ttl
    BY <2>2 DEF OwnRowsOutlive
  <2>4. body'[s][q] = GenerateToken(orig[s][q]) /\ orig[s][q] \in Value
    <3>1. CASE s = r /\ q = p
      BY <2>1, <2>2, <3>1
    <3>2. CASE s # r \/ q # p
      BY <2>2, <3>2, TokensAssumption DEF OwnToken, BodyInv, BodyOK
    <3> QED
      BY <3>1, <3>2
  <2>5. CASE body'[s][q] = t
    <3>1. orig[s][q] = v
      BY <2>1, <2>4, <2>5 DEF NoCollision
    <3> QED
      BY <2>2, <2>3, <2>5, <3>1
  <2>6. CASE body'[s][q] # t
    <3>1. body'[s][q] = body[s][q] /\ OwnToken(s, q)
      BY <2>2, <2>6 DEF OwnToken
    <3>2. PICK x \in rows : /\ x.token = body[s][q]
                            /\ x.value = orig[s][q]
                            /\ x.expires + Lifetime >= start[s] + Ttl
      BY <3>1 DEF OwnRowsOutlive
    <3> QED
      BY <2>2, <2>6, <3>1, <3>2
  <2> QED
    BY <2>5, <2>6
<1>5. ASSUME NEW r \in Req, Forward(r) PROVE OwnRowsOutlive'
  BY <1>5, OutliveFrame DEF TypeOK, Forward, Goto, Serving, Hung, Live, vaultVars
<1>6. ASSUME NEW r \in Req, NEW b \in Responses, Answer(r, b)
      PROVE  OwnRowsOutlive'
  BY <1>6, OutliveFrame DEF TypeOK, Answer, Goto, Serving, Hung, Live, vaultVars
<1>7. ASSUME NEW r \in Req, ReadClock(r) PROVE OwnRowsOutlive'
  BY <1>7, OutliveFrame DEF TypeOK, ReadClock, Goto, Serving, Hung, Live, vaultVars
<1>8. ASSUME NEW r \in Req, NEW p \in Place, Restore(r, p) PROVE OwnRowsOutlive'
  BY <1>8, OutliveFrame DEF TypeOK, Restore, Goto, Serving, Hung, Live, vaultVars
<1>9. CASE CliReadClock \/ Tick \/ UNCHANGED vars
  BY <1>9, OutliveFrame DEF CliReadClock, Tick, vars, reqVars, vaultVars, Serving, Hung, Live
<1>10. CASE CliPurge
  <2> SUFFICES ASSUME NEW s \in Req, Live(s), ~cleared[s], NEW q \in Place,
                      OwnToken(s, q)
               PROVE  \E x \in rows' : /\ x.token = body[s][q]
                                       /\ x.value = orig[s][q]
                                       /\ x.expires + Lifetime >= start[s] + Ttl
    BY <1>10 DEF OwnRowsOutlive, OwnToken, CliPurge, reqVars, Serving, Hung, Live
  <2>1. PICK x \in rows : /\ x.token = body[s][q]
                          /\ x.value = orig[s][q]
                          /\ x.expires + Lifetime >= start[s] + Ttl
    BY DEF OwnRowsOutlive
  <2>2. cli =< now /\ now =< start[s] + Lifetime
    BY DEF TimeInv, TimeOK
  <2>3. /\ x.expires \in Int /\ start[s] \in Nat /\ cli \in Int /\ now \in Nat
        /\ Ttl \in Nat
    BY DEF TypeOK, VaultTypeOK, Row, I64, Time, NoPurge, Ttl
  <2>4. x.expires > cli
    BY <2>1, <2>2, <2>3
  <2> QED
    BY <1>10, <2>1, <2>4 DEF CliPurge, PurgeExpired
<1>11. CASE CliClear
  BY <1>11 DEF OwnRowsOutlive, OwnToken, CliClear, Serving, Hung, Live, TypeOK
<1>12. CASE Restart
  BY <1>12 DEF OwnRowsOutlive, Restart, Serving, Hung, Live
<1>13. ASSUME NEW r \in Req, Hang(r) PROVE OwnRowsOutlive'
  BY <1>13, OutliveFrame DEF TypeOK, Hang, Goto, Serving, Hung, Live, vaultVars
<1> QED
  BY <1>1, <1>2, <1>3, <1>4, <1>5, <1>6, <1>7, <1>8, <1>9, <1>10, <1>11, <1>12, <1>13
     DEF Next, Handle, Reply, Fail, Relay

(***************************************************************************)
(* Of a reply in the making: the request's own tokens that are no longer   *)
(* pending have been restored.                                             *)
(***************************************************************************)
OwnRestored(r) ==
  pc[r] \in {"detok", "select"} /\ ~cleared[r] =>
    \A p, q \in Place :
      /\ p \notin pend[r]
      /\ OwnToken(r, q)
      /\ resp[r][p] = body[r][q]
      /\ Recognised(resp[r][p])
      => reply[r][p] = orig[r][q]

RestoredInv == \A r \in Req : OwnRestored(r)

LEMMA RestoredStep ==
  ASSUME NoCollision, TtlFits, 2 * Lifetime < Ttl,
         TypeInv, BodyInv, KeyInv, TimeInv, OwnRowsOutlive, RestoredInv,
         [Next]_vars
  PROVE  RestoredInv'
<1> SUFFICES ASSUME NEW s \in Req PROVE OwnRestored(s)'
  BY DEF RestoredInv
<1> USE ProxyAssumption DEF RestoredInv, TypeInv
<1>1. ASSUME NEW r \in Req, NEW b \in Requests, Accept(r, b)
      PROVE  OwnRestored(s)'
  BY <1>1 DEF TypeOK, OwnRestored, OwnToken, Accept, Goto
<1>2. ASSUME NEW r \in Req, Return(r) PROVE OwnRestored(s)'
  BY <1>2 DEF TypeOK, OwnRestored, OwnToken, Return, Goto
<1>3. ASSUME NEW r \in Req, NEW l \in Leaf, NEW found \in SUBSET Place,
             Detect(r, l, found)
      PROVE  OwnRestored(s)'
  <2>1. /\ pc[r] = "detect"
        /\ \/ UNCHANGED <<pc, pend>>
           \/ /\ pc' = [pc EXCEPT ![r] = "store"]
              /\ pend' = [pend EXCEPT ![r] = found]
        /\ UNCHANGED <<orig, body, resp, reply, cleared>>
    BY <1>3 DEF Detect, Goto
  <2>2. CASE s = r
    BY <2>1, <2>2 DEF TypeOK, OwnRestored
  <2>3. CASE s # r
    <3>1. pc'[s] = pc[s] /\ pend'[s] = pend[s]
      BY <2>1, <2>3 DEF TypeOK
    <3> QED
      BY <2>1, <3>1 DEF OwnRestored, OwnToken
  <2> QED
    BY <2>2, <2>3
<1>4. ASSUME NEW r \in Req, NEW p \in Place, StoreEntity(r, p)
      PROVE  OwnRestored(s)'
  BY <1>4 DEF TypeOK, OwnRestored, OwnToken, StoreEntity, Goto
<1>5. ASSUME NEW r \in Req, Forward(r) PROVE OwnRestored(s)'
  BY <1>5 DEF TypeOK, OwnRestored, OwnToken, Forward, Goto
<1>6. ASSUME NEW r \in Req, NEW b \in Responses, Answer(r, b)
      PROVE  OwnRestored(s)'
  BY <1>6 DEF TypeOK, OwnRestored, OwnToken, Answer, TokenPlaces, Goto
<1>7. ASSUME NEW r \in Req, ReadClock(r) PROVE OwnRestored(s)'
  BY <1>7 DEF TypeOK, OwnRestored, OwnToken, ReadClock, Goto
<1>8. ASSUME NEW r \in Req, NEW p \in Place, Restore(r, p)
      PROVE  OwnRestored(s)'
  <2>1. reply[r][p] = resp[r][p]
    BY <1>8 DEF Restore, PendOK
  <2>2. ASSUME NEW q \in Place, OwnToken(r, q), resp[r][p] = body[r][q],
               ~cleared[r]
        PROVE  reply'[r][p] = orig[r][q]
    <3>1. PICK x \in rows : /\ x.token = body[r][q]
                            /\ x.value = orig[r][q]
                            /\ x.expires + Lifetime >= start[r] + Ttl
      BY <1>8, <2>2 DEF OwnRowsOutlive, Serving, Hung, Live, Restore
    <3>2. x.expires > seen[r]
      <4>1. seen[r] =< now /\ now =< start[r] + Lifetime
        BY <1>8 DEF Restore, TimeInv, TimeOK, Serving, Hung, Live
      <4>2. /\ x.expires \in Int /\ start[r] \in Nat
            /\ seen[r] \in Nat /\ now \in Nat /\ Ttl \in Nat
        BY VaultAssumption DEF TypeOK, VaultTypeOK, Row, I64, Time, Ttl
      <4> QED
        BY <3>1, <4>1, <4>2, VaultAssumption
    <3>3. x \in Selected(reply[r][p], seen[r])
      BY <2>1, <2>2, <3>1, <3>2 DEF Selected
    <3>4. PICK y \in Selected(reply[r][p], seen[r]) : reply'[r][p] = y.value
      BY <1>8, <3>3 DEF Restore, TypeOK
    <3>5. GenerateToken(y.value) = body[r][q] /\ y.value \in Value
      BY <2>1, <2>2, <3>4
         DEF Selected, KeyInv, RowsKeyed, TypeOK, VaultTypeOK, Row
    <3>6. GenerateToken(orig[r][q]) = body[r][q] /\ orig[r][q] \in Value
      BY <2>2, TokensAssumption DEF OwnToken, BodyInv, BodyOK
    <3> QED
      BY <3>4, <3>5, <3>6 DEF NoCollision
  <2>3. \A o \in Place : o # p => reply'[r][o] = reply[r][o]
    BY <1>8 DEF Restore, TypeOK
  <2>4. \A o \in Req : o # r => reply'[o] = reply[o]
    BY <1>8 DEF Restore, TypeOK
  <2>5. /\ pc[r] = "select"
        /\ pc' = [pc EXCEPT ![r] = "detok"]
        /\ pend' = [pend EXCEPT ![r] = @ \ {p}]
        /\ UNCHANGED <<orig, body, resp, cleared>>
    BY <1>8 DEF Restore, Goto
  <2>6. CASE s = r
    BY <2>2, <2>3, <2>5, <2>6 DEF TypeOK, OwnRestored, OwnToken
  <2>7. CASE s # r
    BY <2>4, <2>5, <2>7 DEF TypeOK, OwnRestored, OwnToken
  <2> QED
    BY <2>6, <2>7
<1>9. CASE CliReadClock \/ CliPurge \/ Tick \/ UNCHANGED vars
  BY <1>9 DEF OwnRestored, OwnToken, CliReadClock, CliPurge, Tick, vars, reqVars
<1>10. CASE CliClear
  BY <1>10 DEF TypeOK, OwnRestored, OwnToken, CliClear, Serving
<1>11. CASE Restart
  BY <1>11 DEF OwnRestored, Restart
<1>12. ASSUME NEW r \in Req, Hang(r) PROVE OwnRestored(s)'
  BY <1>12 DEF TypeOK, OwnRestored, OwnToken, Hang, Goto
<1> QED
  BY <1>1, <1>2, <1>3, <1>4, <1>5, <1>6, <1>7, <1>8, <1>9, <1>10, <1>11, <1>12
     DEF Next, Handle, Reply, Fail, Relay

LEMMA InitTimeInv == Init => TimeInv /\ OwnRowsOutlive /\ RestoredInv
BY DEF Init, VaultInit, TimeInv, TimeOK, Serving, Hung, Live, NoPurge, OwnRowsOutlive,
       RestoredInv, OwnRestored

(***************************************************************************)
(* The rows of a request outlive it, for a Ttl of more than two lifetimes  *)
(* that fits 64 bits, and no collision of tokens.                          *)
(***************************************************************************)
THEOREM RowsOutlive ==
  NoCollision /\ TtlFits /\ 2 * Lifetime < Ttl => (Spec => []OwnRowsOutlive)
<1> SUFFICES ASSUME NoCollision, TtlFits, 2 * Lifetime < Ttl
             PROVE  Spec => []OwnRowsOutlive
  OBVIOUS
<1>1. TypeInv /\ BodyInv /\ TimeInv /\ OwnRowsOutlive /\ [Next]_vars =>
        OwnRowsOutlive'
  BY OutliveStep
<1> QED
  BY <1>1, InitInv, InitTimeInv, TypeStep, BodyStep, TimeStep, PTL DEF Spec

(***************************************************************************)
(* Under the same conditions every token a request made, that the pattern  *)
(* recognises, is restored in its reply unless the vault was cleared.      *)
(***************************************************************************)
THEOREM OwnTokensRestored ==
  NoCollision /\ TtlFits /\ 2 * Lifetime < Ttl => (Spec => []RestoredWithinLifetime)
<1> SUFFICES ASSUME NoCollision, TtlFits, 2 * Lifetime < Ttl
             PROVE  Spec => []RestoredWithinLifetime
  OBVIOUS
<1>1. TypeInv /\ BodyInv /\ TimeInv /\ OwnRowsOutlive /\ [Next]_vars =>
        OwnRowsOutlive'
  BY OutliveStep
<1>2. /\ TypeInv /\ BodyInv /\ KeyInv /\ TimeInv /\ OwnRowsOutlive
      /\ RestoredInv /\ [Next]_vars
      => RestoredInv'
  BY RestoredStep
<1>3. RestoredInv => RestoredWithinLifetime
  BY DEF RestoredInv, OwnRestored, RestoredWithinLifetime, Replying
<1> QED
  BY <1>1, <1>2, <1>3, InitInv, InitKeyInv, InitTimeInv, TypeStep, BodyStep,
     ReplyStep, TimeStep, PTL DEF Spec
=============================================================================
