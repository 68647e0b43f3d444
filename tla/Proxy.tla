------------------------------- MODULE Proxy --------------------------------
(***************************************************************************)
(* `privox serve` between its clients and the upstream model, for requests *)
(* answered in one body: chat_completions_handler with "stream": false and *)
(* legacy_completions_handler of src/server.rs, with the tokenizer and the *)
(* detokenizer they call, over one vault that all requests and the         *)
(* `privox vault` commands of other processes share.                       *)
(*                                                                         *)
(* A JSON body is a function from places to items.  A place lies in a      *)
(* leaf, one of the body's strings; an item is a word, a sensitive value   *)
(* or a token.  The items of two places never overlap: how overlapping     *)
(* detections are resolved is not the business of this module.             *)
(***************************************************************************)
EXTENDS VaultTable

CONSTANTS
  Req,           \* bound: the requests that can be in flight at a time
  Place, Leaf, LeafOf,
  ProtocolLeaf,  \* leaves should_tokenize_path skips: model, role, tools...
  Word,
  Structured,    \* the values the regex detector finds; only NER finds others
  Requests,      \* the bodies clients send
  Responses,     \* the bodies the upstream may answer
  Lifetime       \* bound: no request is live for longer, in ticks

Item == Word \cup Value \cup Token

ASSUME ProxyAssumption ==
  /\ LeafOf \in [Place -> Leaf]
  /\ ProtocolLeaf \subseteq Leaf
  /\ Structured \subseteq Value
  /\ Word \cap (Value \cup Token) = {}
  /\ Requests \subseteq [Place -> Item]
  /\ Requests # {}
  /\ Responses \subseteq [Place -> Item]
  /\ Lifetime \in Nat

VARIABLES
  pc,       \* where the handler of a request is
  orig,     \* the body the client sent
  body,     \* the body being tokenized, then as it was sent upstream
  resp,     \* the body the upstream answered
  reply,    \* the body being detokenized, then as it was sent to the client
  todo,     \* the leaves not tokenized yet
  pend,     \* the places of the current call not replaced yet
  seen,     \* the clock, as the current call of the vault read it
  start,    \* history: when the request came in
  cleared,  \* history: the vault was cleared while the request was served
  cli       \* a `privox vault purge`: its reading of the clock, or NoPurge

reqVars == <<pc, orig, body, resp, reply, todo, pend, seen, start, cleared>>
vars == <<vaultVars, reqVars, cli>>

NoPurge == -1

Label == {"idle", "detect", "hung", "store", "upstream", "detok", "select"}

Serving(r) == pc[r] # "idle"

(* Its detection does not end. *)
Hung(r) == pc[r] = "hung"

Live(r) == Serving(r) /\ ~Hung(r)

(* What a handler's locals hold while there is no request. *)
Blank == CHOOSE b \in Requests : TRUE

TypeOK ==
  /\ VaultTypeOK
  /\ pc \in [Req -> Label]
  /\ orig \in [Req -> [Place -> Item]]
  /\ body \in [Req -> [Place -> Item]]
  /\ resp \in [Req -> [Place -> Item]]
  /\ reply \in [Req -> [Place -> Item]]
  /\ todo \in [Req -> SUBSET Leaf]
  /\ pend \in [Req -> SUBSET Place]
  /\ seen \in [Req -> Time]
  /\ start \in [Req -> Time]
  /\ cleared \in [Req -> BOOLEAN]
  /\ cli \in Time \cup {NoPurge}

Init ==
  /\ VaultInit
  /\ pc = [r \in Req |-> "idle"]
  /\ orig = [r \in Req |-> Blank]
  /\ body = [r \in Req |-> Blank]
  /\ resp = [r \in Req |-> Blank]
  /\ reply = [r \in Req |-> Blank]
  /\ todo = [r \in Req |-> {}]
  /\ pend = [r \in Req |-> {}]
  /\ seen = [r \in Req |-> 0]
  /\ start = [r \in Req |-> 0]
  /\ cleared = [r \in Req |-> FALSE]
  /\ cli = NoPurge

Goto(r, label) == pc' = [pc EXCEPT ![r] = label]

(* The handler returns: its locals are gone, and another request may come. *)
Return(r) ==
  /\ Goto(r, "idle")
  /\ orig' = [orig EXCEPT ![r] = Blank]
  /\ body' = [body EXCEPT ![r] = Blank]
  /\ resp' = [resp EXCEPT ![r] = Blank]
  /\ reply' = [reply EXCEPT ![r] = Blank]
  /\ todo' = [todo EXCEPT ![r] = {}]
  /\ pend' = [pend EXCEPT ![r] = {}]
  /\ seen' = [seen EXCEPT ![r] = 0]
  /\ start' = [start EXCEPT ![r] = 0]
  /\ cleared' = [cleared EXCEPT ![r] = FALSE]
  /\ UNCHANGED <<vaultVars, cli>>

-----------------------------------------------------------------------------
(***************************************************************************)
(* A request comes in and its upstream header, if any, is valid.  (One     *)
(* that is not is answered 400 and leaves no trace.)                       *)
(***************************************************************************)
Accept(r, b) ==
  /\ pc[r] = "idle"
  /\ Goto(r, "detect")
  /\ orig' = [orig EXCEPT ![r] = b]
  /\ body' = [body EXCEPT ![r] = b]
  /\ todo' = [todo EXCEPT ![r] = Leaf \ ProtocolLeaf]
  /\ start' = [start EXCEPT ![r] = now]
  /\ UNCHANGED <<vaultVars, resp, reply, pend, seen, cleared, cli>>

(***************************************************************************)
(* The pipeline has run on leaf l and found the values at the places of    *)
(* found: all the structured ones, and of the others those NER sees.  The  *)
(* tokenizer returns at once when there are none; else it reads the clock, *)
(* once for all it will store.                                             *)
(***************************************************************************)
Detect(r, l, found) ==
  LET sensitive == {p \in Place : LeafOf[p] = l /\ body[r][p] \in Value}
  IN /\ pc[r] = "detect"
     /\ l \in todo[r]
     /\ found \subseteq sensitive
     /\ {p \in sensitive : body[r][p] \in Structured} \subseteq found
     /\ todo' = [todo EXCEPT ![r] = @ \ {l}]
     /\ IF found = {}
          THEN UNCHANGED <<pc, pend, seen>>
          ELSE /\ Goto(r, "store")
               /\ pend' = [pend EXCEPT ![r] = found]
               /\ seen' = [seen EXCEPT ![r] = now]
     /\ UNCHANGED <<vaultVars, orig, body, resp, reply, start, cleared, cli>>

(***************************************************************************)
(* Or it does not end: parse_ner_response finds an item without a text     *)
(* over and over, on the thread that runs the handler (the module          *)
(* Detection).  No timeout is looked at meanwhile.                         *)
(***************************************************************************)
Hang(r) ==
  /\ pc[r] = "detect"
  /\ todo[r] # {}
  /\ Goto(r, "hung")
  /\ UNCHANGED <<vaultVars, orig, body, resp, reply, todo, pend, seen, start,
                 cleared, cli>>

(***************************************************************************)
(* now + (ttl_hours as i64) * 3600, each step of it in 64 bits.  (A build  *)
(* that checks for overflow panics instead: the handler dies, as in Fail.) *)
(***************************************************************************)
ExpiresAt(reading) == Signed(reading + Signed(Signed(TtlHours) * Hour))

(***************************************************************************)
(* One turn of the tokenizer's loop.  Lengths are not in the model, so the *)
(* places are taken in any order, the longest first included; and the item *)
(* is replaced here, where the code replaces all of a leaf's items when    *)
(* the loop is done: nobody but this handler reads the body before.        *)
(***************************************************************************)
StoreEntity(r, p) ==
  /\ pc[r] = "store"
  /\ p \in pend[r]
  /\ Store(GenerateToken(body[r][p]), body[r][p], ExpiresAt(seen[r]))
  /\ body' = [body EXCEPT ![r][p] = GenerateToken(body[r][p])]
  /\ pend' = [pend EXCEPT ![r] = @ \ {p}]
  /\ IF pend[r] = {p} THEN Goto(r, "detect") ELSE UNCHANGED pc
  /\ UNCHANGED <<orig, resp, reply, todo, seen, start, cleared, cli>>

(* Mutant: does not wait for all leaves. *)
ForwardEarly(r) ==
  /\ pc[r] = "detect"
  /\ Goto(r, "upstream")
  /\ UNCHANGED <<vaultVars, orig, body, resp, reply, todo, pend, seen, start,
                 cleared, cli>>

Forward(r) ==
  /\ pc[r] = "detect"
  /\ todo[r] = {}
  /\ Goto(r, "upstream")
  /\ UNCHANGED <<vaultVars, orig, body, resp, reply, todo, pend, seen, start,
                 cleared, cli>>

(* Places of b the detokenizer's pattern matches. *)
TokenPlaces(b) == {p \in Place : b[p] \in Token /\ Recognised(b[p])}

(* A success status with a body that arrives whole. *)
Answer(r, b) ==
  /\ pc[r] = "upstream"
  /\ Goto(r, "detok")
  /\ resp' = [resp EXCEPT ![r] = b]
  /\ reply' = [reply EXCEPT ![r] = b]
  /\ pend' = [pend EXCEPT ![r] = TokenPlaces(b)]
  /\ UNCHANGED <<vaultVars, orig, body, todo, seen, start, cleared, cli>>

(* Any other status: the upstream's body goes to the client as it is. *)
Relay(r) == pc[r] = "upstream" /\ Return(r)

(* SqliteVault::lookup, first half: the clock is read outside the mutex. *)
ReadClock(r) ==
  /\ pc[r] = "detok"
  /\ pend[r] # {}
  /\ Goto(r, "select")
  /\ seen' = [seen EXCEPT ![r] = now]
  /\ UNCHANGED <<vaultVars, orig, body, resp, reply, todo, pend, start,
                 cleared, cli>>

(***************************************************************************)
(* Second half, and what the detokenizer does with the answer.  The code   *)
(* goes through the tokens from left to right; here they come in any       *)
(* order.                                                                  *)
(***************************************************************************)
Restore(r, p) ==
  /\ pc[r] = "select"
  /\ p \in pend[r]
  /\ \/ \E x \in Selected(reply[r][p], seen[r]) :
          reply' = [reply EXCEPT ![r][p] = x.value]
     \/ /\ Selected(reply[r][p], seen[r]) = {}
        /\ UNCHANGED reply
  /\ pend' = [pend EXCEPT ![r] = @ \ {p}]
  /\ Goto(r, "detok")
  /\ UNCHANGED <<vaultVars, orig, body, resp, todo, seen, start, cleared, cli>>

(* Nothing is left to look up. *)
Replying(r) == pc[r] = "detok" /\ pend[r] = {}

Reply(r) == Replying(r) /\ Return(r)

(* Mutant: the upstream client has no timeout. *)
FailWithoutTimeout(r) ==
  /\ \/ pc[r] = "detect" /\ todo[r] # {}
     \/ pc[r] \in {"store", "select"}
  /\ Return(r)

(***************************************************************************)
(* The early returns: 500 when a detector fails, 500 when the vault fails  *)
(* to store or to look up, 502 when the upstream is unreachable, times     *)
(* out, or breaks off its body.  What was stored stays stored.             *)
(***************************************************************************)
Fail(r) ==
  /\ \/ pc[r] = "detect" /\ todo[r] # {}
     \/ pc[r] \in {"store", "upstream", "select"}
  /\ Return(r)

Handle(r) ==
  \/ \E l \in Leaf, found \in SUBSET Place : Detect(r, l, found)
  \/ \E p \in Place : StoreEntity(r, p)
  \/ Forward(r)
  \/ ReadClock(r)
  \/ \E p \in Place : Restore(r, p)
  \/ Reply(r)
  \/ Fail(r)

-----------------------------------------------------------------------------
(* `privox vault purge`, a process of its own. *)
CliReadClock ==
  /\ cli = NoPurge
  /\ cli' = now
  /\ UNCHANGED <<vaultVars, reqVars>>

CliPurge ==
  /\ cli # NoPurge
  /\ PurgeExpired(cli)
  /\ cli' = NoPurge
  /\ UNCHANGED reqVars

(* `privox vault clear --confirm` *)
CliClear ==
  /\ rows # {}
  /\ ClearAll
  /\ cleared' = [r \in Req |-> cleared[r] \/ Serving(r)]
  /\ UNCHANGED <<pc, orig, body, resp, reply, todo, pend, seen, start, cli>>

(***************************************************************************)
(* serve is killed and started again: the clients of the requests in       *)
(* flight lose their connection, what was committed stays.                 *)
(***************************************************************************)
Restart ==
  /\ \E r \in Req : Serving(r)
  /\ pc' = [r \in Req |-> "idle"]
  /\ orig' = [r \in Req |-> Blank]
  /\ body' = [r \in Req |-> Blank]
  /\ resp' = [r \in Req |-> Blank]
  /\ reply' = [r \in Req |-> Blank]
  /\ todo' = [r \in Req |-> {}]
  /\ pend' = [r \in Req |-> {}]
  /\ seen' = [r \in Req |-> 0]
  /\ start' = [r \in Req |-> 0]
  /\ cleared' = [r \in Req |-> FALSE]
  /\ UNCHANGED <<vaultVars, cli>>

(***************************************************************************)
(* Time passes, but no request is live for longer than Lifetime; one whose *)
(* detection hangs does not hold up the clock.                             *)
(***************************************************************************)
Tick ==
  /\ now < MaxTime
  /\ \A r \in Req : Live(r) => now < start[r] + Lifetime
  /\ now' = now + 1
  /\ UNCHANGED <<rows, reqVars, cli>>

Next ==
  \/ \E r \in Req :
       \/ \E b \in Requests : Accept(r, b)
       \/ Handle(r)
       \/ Hang(r)
       \/ \E b \in Responses : Answer(r, b)
       \/ Relay(r)
  \/ CliReadClock
  \/ CliPurge
  \/ CliClear
  \/ Restart
  \/ Tick

Spec == Init /\ [][Next]_vars

(***************************************************************************)
(* The runtime runs every handler that can run, and the clock goes on.  A  *)
(* detection that does not end keeps a thread of the runtime for itself,   *)
(* with the handlers waiting for this thread: from then on nothing is      *)
(* assumed.  The upstream need not answer: that its silence ends is the    *)
(* client's total timeout, a step of the handler (Fail).  A purge that has *)
(* begun ends; that anyone begins one, or sends a request, is not assumed. *)
(***************************************************************************)
ThreadsFree == \A q \in Req : ~Hung(q)

FairSpec ==
  /\ Spec
  /\ \A r \in Req : WF_vars(ThreadsFree /\ Handle(r))
  /\ WF_vars(CliPurge)
  /\ WF_vars(Tick)

-----------------------------------------------------------------------------
(***************************************************************************)
(* No leaf the tokenizer goes through leaves the proxy with a value the    *)
(* regex detector knows, whatever NER missed, other requests did to the    *)
(* vault, or failed on the way.                                            *)
(***************************************************************************)
StructuredNeverForwarded ==
  \A r \in Req : pc[r] = "upstream" =>
    \A p \in Place : LeafOf[p] \notin ProtocolLeaf => body[r][p] \notin Structured

(* At place q the client's value went upstream as a token. *)
OwnToken(r, q) == orig[r][q] \in Value /\ body[r][q] \in Token

(***************************************************************************)
(* What comes back for a token the request itself sent is the value it     *)
(* sent the token for, or the token: never another value, although the     *)
(* vault is shared and keeps what earlier requests stored.  Everything     *)
(* that is no token comes back as the upstream wrote it.                   *)
(***************************************************************************)
ReplyFaithful ==
  \A r \in Req : Replying(r) =>
    \A p \in Place :
      /\ resp[r][p] \notin Token => reply[r][p] = resp[r][p]
      /\ \A q \in Place : OwnToken(r, q) /\ resp[r][p] = body[r][q] =>
           reply[r][p] \in {resp[r][p], orig[r][q]}

(***************************************************************************)
(* As long as a request is live and nobody clears the vault, the row of    *)
(* each token it made is there, with its value, and will be until Ttl      *)
(* after the request came in, less the time another request may have held  *)
(* an older reading of the clock when it replaced the row.                 *)
(***************************************************************************)
OwnRowsOutlive ==
  \A r \in Req : Live(r) /\ ~cleared[r] =>
    \A q \in Place : OwnToken(r, q) =>
      \E x \in rows : /\ x.token = body[r][q]
                      /\ x.value = orig[r][q]
                      /\ x.expires + Lifetime >= start[r] + Ttl

(***************************************************************************)
(* When Ttl is more than twice as long as any request lives, every token a *)
(* request made and the detokenizer recognises is restored in its reply:   *)
(* no purge, no expiry and no other request comes in between, only a clear *)
(* can.                                                                    *)
(***************************************************************************)
RestoredWithinLifetime ==
  \A r \in Req : Replying(r) /\ ~cleared[r] =>
    \A p, q \in Place :
      OwnToken(r, q) /\ resp[r][p] = body[r][q] /\ Recognised(resp[r][p]) =>
        reply[r][p] = orig[r][q]

(***************************************************************************)
(* The same of every token a request made, as REQUIREMENTS.md has it ("For *)
(* each token found, the detokenizer MUST look up the original value").    *)
(***************************************************************************)
EveryOwnTokenRestored ==
  \A r \in Req : Replying(r) /\ ~cleared[r] =>
    \A p, q \in Place :
      OwnToken(r, q) /\ resp[r][p] = body[r][q] => reply[r][p] = orig[r][q]

(***************************************************************************)
(* Every request that was accepted is answered, by a reply, the upstream's *)
(* own error, or an error of the proxy, or some request's detection never  *)
(* ends.                                                                   *)
(***************************************************************************)
Answered == \A r \in Req : Serving(r) ~> (~Serving(r) \/ ~ThreadsFree)
=============================================================================
