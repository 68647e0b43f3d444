# privox in TLA+

[privox](../src/README.md) is a proxy between applications and an
OpenAI-compatible upstream. It replaces the sensitive values it detects in a
request by tokens, keeps the mapping in an encrypted SQLite vault, and puts the
values back into the response, streamed or not. This directory specifies the
parts of it that keep state or depend on order, checks them with TLC on small
instances, and proves the most important results with TLAPS for all values of
the constants.

Contents: 1 the system, 2 the modules, 3 the runs, 4 where code and documents
differ, 5 fairness, 6 the proofs, 7 what is not modelled, 8 the plan.

## 1. The system

Paths are relative to `src/src/` of the repository.

| Component | State | Operations | Hard about it | What makes it correct |
|---|---|---|---|---|
| HTTP handlers (`server.rs`, one body) | locals of a handler, one task per request | accept, tokenize the strings, call the upstream, detokenize, reply; early returns 400, 500, 502; the upstream's own errors relayed | any number of requests in flight share one vault; a failure at any step; a restart with requests in flight | nothing the regex detector knows goes upstream; the reply holds the client's own values and nobody else's; every request is answered, unless a detection hangs |
| SSE streaming (`server.rs`, `handle_streaming`) | line buffer, a detokenizer per JSON path, a channel of 32 events, the client's connection | read a chunk, parse events, push, forward or drop, flush at a finish reason, at `[DONE]` and at the end, send | slow and leaving clients, broken streams, chunks cut anywhere, failing lookups, several texts in one stream | every text arrives whole, in order, under its own owner; the end comes last; the task ends |
| Streaming detokenizer (`detokenizer.rs`) | buffer of one path | `push_chunk`, `flush` | a token, a character, a chunk boundary and the window fall together in every way | what comes out does not depend on the chunking |
| Tokenizer (`tokenizer.rs`) | installation secret | `generate_token`, `tokenize` | truncated HMAC, a store that fails half way, byte offsets that move | distinct values get distinct tokens; all or nothing goes upstream; each token lands in its place |
| Detector pipeline (`detector/mod.rs`) | none between calls | `detect`, `merge_spans` | overlapping spans of several detectors | overlaps are resolved for a reason, and no detection is lost without one |
| Regex detector (`detector/regex.rs`) | compiled patterns | `detect`, the Luhn check | a greedy pattern that meets digits, of any script, beside a card | a card that stands by itself is found; a mistyped one is not |
| NER detector (`detector/ner.rs`) | HTTP client | ask the sidecar, parse its JSON, find the texts again | prose around the array; a search loop over the model's answer; failures that degrade and one that does not | every occurrence is found, whatever surrounds the array; the search ends |
| Presidio detector (`detector/presidio.rs`) | none | a stub: `detect` returns no entities, always | - | - |
| Vault (`vault/sqlite.rs`) | table `token_mappings` | `store`, `lookup`, `purge_expired`, `stats`, `clear_all` | the clock is read before the mutex is taken; other processes purge and clear; power loss under `synchronous=NORMAL` | a row lives for its TTL and no longer is found; a stored value is found again |
| Vault encryption (`vault/crypto.rs`) | derived key | `derive_key`, `encrypt`, `decrypt` | a changed secret, rows under the old key | nobody meets a row they cannot decrypt under a token they make |
| Upstream client (`proxy.rs`) | connection pool | forward a request | timeouts, broken bodies | an answer or an error within the timeout |
| Configuration (`config.rs`) | the settings being put together | file, environment, command line, validation | precedence; what escapes validation | each setting from the first source that sets it; a refusal has a cause |
| Command line (`main.rs`) | config file, secret file | `init`, `serve`, `check`, `vault stats`, `purge`, `clear` | crash inside `init`; power loss; concurrent processes; two readings of the secret at a start | one whole secret per installation; key and tokens from the same one |
| Types and errors (`types.rs`, `error.rs`) | - | prefixes, wording | the prefixes `IPV4` and `IPV6` hold a digit | the detokenizer recognises what the tokenizer makes |

How they interact. A handler runs `tokenize_json_strings`, which calls the
pipeline and the tokenizer for each string leaf of the body that
`should_tokenize_path` selects; the tokenizer generates tokens and calls the
vault's `store`, the detokenizer its `lookup`. All handlers share one
connection behind a mutex, and the `privox vault` commands of other processes
share the file with it. For a streamed answer the handler starts a task that
reads the upstream and feeds a channel; the HTTP server takes the events from
the other end and drops the receiver when the client closes its connection.
Before all that, `main` loads the configuration, reads the secret twice (for the
vault's key and for the tokenizer) and builds the pipeline of detectors.

## 2. The modules

    Tokens <- VaultTable <- Proxy <- MCProxy                      (runs)
                                  <- ProxyProofs                  (theorems)
    DelayLine    <= StreamDetok   <- MCStreamDetok, StreamDetokProofs
    Subscription <= SseStream     <- MCSseStream, SseStreamProofs
    JsonTree     <- StreamEvent   <- MCStreamEvent, StreamEventProofs
    Cards, Ner   <- Detection     <- MCDetection, PipelineProofs
    Spans                         <- MCSpans, PipelineProofs
    ConfigLoad                    <- MCConfigLoad, ConfigLoadProofs
    Installation                  <- MCInstallation, InstallationProofs
    SequenceLemmas                <- the proofs about streams and the pipeline

`A <- B`: B extends A. `A <= B`: B implements the abstract specification A.
`StreamEvent` has an instance of `SseStream` to compare itself with. `Detection`
and `Spans` come one after the other; `PipelineProofs` extends both, which is
why the specification of `Spans` is `SpansSpec`.

**Tokens** - values, types, tokens. A token is a record of a type and a short
id. The short id is a function of the value alone (`ShortId`, the truncated
HMAC), not assumed injective; `NoCollision` names the assumption where a
property needs it. `Recognised` is what the pattern of the detokenizer matches.

**VaultTable** - the table and its statements. A row is `[token, value,
expires]`; encryption is left out because one key encrypts and decrypts all
rows. `Ttl` is `TtlHours * Hour`, and `Signed` what an `i64` keeps of a number:
`Half` is 2^63, and `expires` is any number of that width. The statements are
atomic, and take the reading of the clock as a parameter, because the code reads
it before it takes the mutex: the modules of the callers have a step for the
reading and a step for the statement.

**Proxy** - requests with one-body answers over one vault. For each request
`r`: `pc[r]` is where its handler stands, `body[r]` the JSON body as tokenized
so far, `reply[r]` as detokenized so far. A body is a function from places to
items (words, values, tokens); places belong to leaves.

| Action | Code |
|---|---|
| `Accept` | `chat_completions_handler` after the header check |
| `Detect` | one leaf of `tokenize_json_strings`: the pipeline, the early return when nothing is found, the one reading of the clock |
| `Hang` | a pipeline that never returns (*detect_hang*), on the handler's thread |
| `StoreEntity` | one turn of the loop of `Tokenizer::tokenize` |
| `Forward` | `upstream.forward` |
| `Answer`, `Relay` | a success status; any other, whose body is relayed |
| `ReadClock`, `Restore` | the two halves of `SqliteVault::lookup`, and what `detokenize_text` does with the result |
| `Reply`, `Fail` | the reply; the errors 500 and 502 |
| `CliReadClock`, `CliPurge`, `CliClear` | `privox vault purge`, `privox vault clear --confirm` in another process |
| `Restart` | `serve` killed and started again |
| `Tick` | the clock |

Two steps of the code are merged: a tokenized string is assigned to its leaf
when the loop is done, the model replaces the item at its turn. Nobody but the
handler sees the body before it is sent, and a handler that fails drops it. A
client that disconnects makes the server drop the handler's future at an await,
which leaves what `Fail` leaves. `orig`, `resp`, `start` and `cleared` record
what happened, for the properties; no guard but the bound on time reads them.

**StreamDetok** - one `StreamingDetokenizer`, byte by byte. A byte knows its
glyph and its place in it, so a token can be cut after any byte and a character,
which takes one to four (`Size`), has places where slicing would panic. `Hold`
and `Release` are the two ways through `push_chunk`, `Flush` is `flush`.
`Detokenize` is `detokenize_text` with the word boundaries of its pattern. A
lookup that fails loses what was taken from the buffer, as in the code (`lost`).

**DelayLine** - what a user of `StreamingDetokenizer` may rely on, without
windows, tokens and characters: bytes come out in the order they went in, at
least `Least` and at most `Most` behind, and closing lets out the rest. The
mapping is `Least <- Window`, `Most <- Slack` (three bytes more: the split steps
back to the beginning of a character of up to four), `input <- Given`,
`passed <- released`.

**SseStream** - `handle_streaming`. An event is its buffered strings (a
function from paths to pieces) and three flags. `Data`, `Finish` and `Done` are
an event on each branch of the loop, `Close` the end or a failed read, `Skip` a
chunk that is not UTF-8; each fills `outbox`, and `Send` puts it into the
channel one event at a time, waiting for room unless the client has gone. The
script has the lines as the task reads them: what is left of a line around a
skipped chunk is an event of it if it parses, and is lost if it does not.
`Read` and `Leave` are the client. Path and owner of a text are independent,
because the code knows a text by where it stands in the arrays of the event and
the client by the `index` beside it. `FlushEvents` allows every order of the
paths, of which the code's (shorter ones first, equal ones as the hash map has
them) is one.

**Subscription** - what a client of a stream may rely on, without events, paths,
windows and the channel: of each text it hears a beginning of what has been
said, in order; the stream is over some time; then, before long, it has heard
everything, unless it went away or a lookup failed (`broken`). The mapping puts
the texts of the events read (`said`) and received (`heard`) together, per owner.

**JsonTree** - the functions of `server.rs` on JSON values: the paths of strings
(`StringPaths`), reading and writing at a path (`ValueAt`, `Replaced`), removal
and pruning (`Removed`; `PrunedAll` from the leaves up, with `Kept` for the
items of an array), and building a value for a path (`WithMade` for each
segment, `SetAlong`, `Set`). A string is a sequence of characters, of which a
token is one. A path is walked segment by segment (`Walk`), and a change is
built back from its end to the root (`Rebuilt`). All is defined by functions on
paths, none deeper than `MaxDepth`, the parser's limit (128 in serde_json).
`WellFormed` is what the parser promises of a value, `IsJson` in
`StreamEventAssumption` that every value in an event is so. `KeyAssumption` says
that four keys are strings: the prover does not take that from the quotes, TLC
does.

**StreamEvent** - one event of a stream as JSON, from the paths of its strings to
the flush of everything held. `Detokenize` and `Push` visit one string each;
`Prune` ends `detokenize_streaming_json_strings`; `Flush` is one turn of the loop
of `flush_stream_json_strings`, at a finish reason (`draining`) or at the end
(`ending`); `Decide` is `should_forward_stream_event`. The code visits the
strings in the order of the map, the model in any. Its `continue` for a path
that leads nowhere any more is left out, because `PathsStayValid` says it is
never taken. `SseStream` has many events and no JSON, `StreamEvent` one event
and all of it; `AgreesWithSseStream` ties the two together: `Abstract` maps an
event to its texts and flags, and what `SseStream` says of those is what happens
to the JSON. `Regular`, `InOrder`, `FirstStays` and `FlushesFit` are the
conditions the theorems put on events; no action looks at them.

**Spans** - `merge_spans` (`Discard`, `Keep`) and the overlap handling of
`Tokenizer::tokenize` (`Skip`, `Replace`, `StoreFails`, `Substitute`), one span
at a time. Where an unstable sort leaves the order open the model does too.

**Cards** - `re_credit_card` as a predicate on a stretch of the text
(`CardLike`), `find_iter` as the leftmost and longest of them (`NextMatch`),
`strip_separators` and `luhn_valid`. The pattern's `\d` takes the decimal digits
of every script (`DecimalDigits`), `strip_separators` keeps those of ASCII
(`Digits`), so the check of the length behind the pattern can fail. **Ner** -
`find_array_end`, the two attempts of `parse_ner_response` at the array
(`ParseItems`), `map_ner_type`. What is JSON, and of which items, is a function
given as a constant (`ItemsOf`); `NerAssumption` says what a JSON parser does
with it: an array ends at the bracket that closes it, and blanks behind that
mean nothing.

**Detection** - `DetectorPipeline::detect` on one text: `ScanCard` and
`EndOfCards` are the scan, `Degrade`, `Fail` and `Parse` what becomes of the
NER call, `Search` one turn of the `while` of `parse_ner_response`, `NextItem`
the end of it, `EndOfSearch` the end of the `for`.

**ConfigLoad** - one start of the program up to the command: `ReadFile`,
`RefuseFile`, `ApplyEnv`, `Accept`, `RefuseConfig` are `Config::load` line by
line, `UseDefaults` and `ApplyFlags` the rest of `load_config`, `Check` and
`Serve` the commands. A configuration is a function from the names of the
fields; a file, an environment and a command line are partial ones. The text of
a Boolean is compared in lower case (`Lowercase`). `CliValue` has that clap
reads three of the variables itself, which is how they count without a file.

**Installation** - the secret file, the vault's rows and the processes over them.

| Action | Code |
|---|---|
| `CheckAbsent`, `Create`, `Write`, `SetMode` | `cmd_init` and `write_secret_file`, a step for each system call |
| `OpenVault`, `Serve`, `FailToServe` | `open_vault` and the two readings of the secret in `cmd_serve` |
| `Store`, `Forward` | a request: its rows, then its tokens upstream |
| `ClearAll` | `privox vault clear --confirm` |
| `Delete` | what the message of `init` tells the operator to do |
| `Kill` | a process ends at any step |
| `SyncSecret`, `Checkpoint`, `PowerFailure` | what the operating system and the journal (`synchronous=NORMAL`) have on the disk, and the loss of the rest |

A token is a pair of a value and the secret its HMAC is made with, a row a token
and the key its value is sealed with. `holds` are the inits that have the file
at the path open: after a `Delete`, which may come at any time, an init writes
to a file that has no name any more, and `SetMode` finds whatever is at the
path. `made`, `used`, `sent`, `cleared`, `outage`, `cutShort`, `disturbed` and
`overlapped` record what happened.

Operators marked "Mutant" change one definition as a plausible bug would; no
specification uses them. For every property of a passing run, one of them
(listed in `PROJECT.json`) makes TLC find the property violated.

## 3. The runs

`tlc -config <cfg> <module>`; the longest, *sse*, takes less than three minutes.

| Run | Module, cfg | Checks |
|---|---|---|
| proxy | MCProxy, MCProxy.cfg | `TypeOK`, `StructuredNeverForwarded`, `ReplyFaithful`, `OwnRowsOutlive`, `RestoredWithinLifetime` |
| proxy_live | MCProxy, ProxyLive.cfg | `Answered` |
| stream_detok | MCStreamDetok, MCStreamDetok.cfg | `NothingOvertaken`, `WindowKept`, `BufferBounded`, `CharactersWhole`, `ChunkingInvisible`, the refinement `DelaysOnly` |
| sse | MCSseStream, MCSseStream.cfg | `InOrder`, `NothingKept`, `EndsLast`, `SignalsForwarded`, `StreamEnds`, the refinement `KeepsSubscription` |
| event | MCStreamEvent, MCStreamEvent.cfg | `PathsStayValid`, `TextsConserved`, `SignalsKept`, `AgreesWithSseStream` |
| spans | MCSpans, MCSpans.cfg | `DroppedForBetter`, `SkippedForLonger`, `OneDetectorTouchesAll`, `SubstitutedInPlace` |
| detection | MCDetection, MCDetection.cfg | `TypeOK`, `IsolatedCardFound`, `SlipCaught`, `ProseIgnored`, `EveryOccurrenceTouched`, `SearchEnds` |
| config | MCConfigLoad, MCConfigLoad.cfg | `FileConfigLegal`, `Precedence`, `RefusedForCause` |
| install | MCInstallation, MCInstallation.cfg | `TypeOK`, `OwnRowsReadable`, `SentTokensBacked`, `SecretWhole`, `SecretKept` |
| proxy_address, stream_cut, detect_hang | | a statement of a document or a comment that the code violates (section 4) |

Bounds, and why they are enough.

- *proxy*: two requests in flight, two values, three places in two leaves, one
  of them skipped by the tokenizer. Two requests are what it takes for one to
  replace, with an older reading of the clock, the row of the other. The values
  have different types and the same short id, so a lookup by id alone would
  show. `Ttl = 3` (one hour of three ticks), `Lifetime = 1`, `MaxTime = 3`: the
  smallest times with `2 * Lifetime < Ttl`, and rows do expire, are purged and
  are renewed. An `i64` goes up to 7, just enough for the expiries; with
  `TtlHours = 3` TLC refutes `OwnRowsOutlive` (section 4). With `Ttl = 2 * Lifetime`
  TLC refutes `RestoredWithinLifetime`, so that hypothesis is as weak as it can
  be. The requests are symmetric; the run has invariants only.
- *proxy_live*: the same system with one body; time up to 1, because the
  property is not about expiry.
- *stream_detok*: every chunking, into chunks of up to four bytes, of every text
  of up to five glyphs: two tokens, a letter and a space of one byte, a letter
  of three, a picture of four; tokens of three bytes, a window of four, so a
  token fits the window, as in the code (27 and 512), a text is longer than
  window and token together, and a release can end inside a token, inside a word
  and inside a character. One token has no row.
- *sse*: two paths, a window of one, a channel of one, every sequence of up to
  three events of four kinds, with and without the closing events, one skipped
  event. The channel is full and both buffers are in use in most of the states.
- *event*: a window of one. A delta has a role or not, content that is absent,
  null, empty, held whole, longer than the window or an array of strings, and up
  to two tool calls, with and without ids, whose arguments are held or not; the
  choice has a finish reason, a null or none. Also two choices, a message in
  place of a delta, and usage. Before the event nothing, the content or the
  second call's arguments are held. So every container is emptied, and kept by
  something else in it, in some input; two calls are what it takes for one to be
  pruned in front of another. An `index` says the position its item has in the
  upstream's event. `MCRegular` has TLC confirm that the inputs satisfy the
  conditions of the theorems.
- *spans*: every set of up to three spans in a text of four bytes, two types
  and two priorities. Every overlap of two spans is in it, and three are
  needed for one that is dropped between two others.
- *detection*: cards of two or three digits instead of 13 to 19, and every text
  of up to six characters over two digits, one of another script, a hyphen and a
  full stop (of up to five with a letter too): room for two cards with something
  between them, and for a run of digits longer than a card. For NER every text
  of up to three characters and 80 answers: five arrays (empty, nested, with
  brackets and escaped quotes in strings, with items that repeat, overlap or are
  of no known type), four beginnings, four ends. `Search`, `NextItem` and
  `Parse` do not depend on the rest of the text, and an item of two characters
  in a text of three overlaps itself.
- *config*: six fields, one for each kind: a string all three sources set, a
  number from file and environment, a number with an upper bound, a Boolean
  spelled `True` or `On`, a level, the list of backends; each right, wrong and
  absent in each source. What happens to a field does not depend on another but
  through `validate`, and the theorems cover all fields.
- *install*: two processes that may init and one that serves, two secrets, one
  value. So two inits overlap, with the file deleted under them, and a secret is
  replaced once at most, which is what it takes to have rows under an old key;
  kills, deletions, power failures and clears are not bounded. Without its
  exception for overlapping inits TLC refutes `SecretKept`: see section 4.

Deadlock is not checked in `StreamDetok`, `SseStream`, `StreamEvent`, `Spans`,
`Detection` and `ConfigLoad`, which end, nor in `Installation`, where secrets
run out. It is checked in `Proxy`, which never stops.

Named bounds: `Req`, `Lifetime`, `MaxTime` (Proxy), `MaxChunk`, `MaxGlyphs`
(StreamDetok), `MaxSkipped`, `MaxBody` (SseStream), `Inputs` (StreamEvent),
`Length` (Spans), `CardText`, `NerText` (MCDetection), `Proc`, `Secret`
(Installation). `Lifetime` is more than a bound: it states that no request is
live, and no purge runs, for longer. In the code the upstream's total timeout
(120 s by default) dominates it, against a `Ttl` of at least an hour. The code
bounds neither the time of a SQLite call nor that of the detectors, so this is
an assumption about the environment; a machine suspended in the middle of a
request can break it.

## 4. Where code and documents differ

Each of these runs ends with a counterexample; `PROJECT.json` quotes both sides.

| Run | Property | What happens |
|---|---|---|
| proxy_address | `EveryOwnTokenRestored` | `IPV4_...` and `IPV6_...` do not match the detokenizer's pattern: the client gets the token |
| stream_cut | `TokensReassembled` | a release that ends inside a token splits it for good |
| detect_hang | `SearchEnds` | an item without text in the model's answer is found at the same place for ever |

More are plain from the code, or a variation of the above, and have no run:

- Nothing in `serve` purges expired rows (`REQUIREMENTS.md:161` wants it at
  start-up and periodically).
- From 2562047788015216 on the seconds of `ttl_hours` do not fit an `i64`
  (`tokenizer.rs:126`), and validation refuses 0 only (`config.rs:364`): the expiry
  wraps and a row may be gone at once, or a build that checks for overflow panics
  in the handler. Without `TtlFits` TLC refutes `OwnRowsOutlive`.
- Two values with one truncated HMAC get one token (`REQUIREMENTS.md:152`); the
  theorems that need tokens to be distinct say so.
- Text in the event with the finish reason is sent after the flush of what
  follows it: its safe part is put into the event (`server.rs:445`), the tails are
  flushed (`server.rs:453`), and the event is sent (`server.rs:457`). With a
  script of such an event, longer than the window, TLC refutes `InOrder`.
- Whether an event goes on is decided by the delta of the first choice
  (`server.rs:482`): text of other choices, or in a `message`, may be dropped, and
  its tail is flushed to the first choice or without its text. A choice without
  a `finish_reason` key is pruned when its text is held, and the next one takes
  its place, so that its `finish_reason` is the one that counts; with such an
  input TLC refutes `AgreesWithSseStream`. The run has every choice of several
  with that key, as the API has it, and the theorem assumes what it takes
  (`FirstStays`).
- A tail is flushed to what its path has below its first `delta`, in the first
  choice (`server.rs:668`), so texts of two choices are flushed to one place.
- Buffers of a stream are keyed by position, not by the `index` field
  (`server.rs:543`): choices or tool calls streamed one per event share a buffer
  and their texts are mixed. With two owners of one path TLC refutes `InOrder`.
- The tail of a tool call's arguments is flushed without the `index` of the call
  (`server.rs:663`), and pruning takes the empty `choices` off an event with usage
  statistics only (`server.rs:609`), where `REQUIREMENTS.md:102` says "MUST pass
  through all response fields unchanged".
- A chunk cut inside a UTF-8 sequence is dropped with every event in it
  (`server.rs:416`).
- A later span of higher priority is kept beside the one it overlaps: the branch
  `detector/mod.rs:157-159` calls unreachable is taken.
- Where overlapping spans are resolved the loser is dropped whole, so its bytes
  outside the winner go upstream (`tokenizer.rs:135`). And of two overlapping
  spans of one detector `merge_spans` keeps the one that starts first, not the
  longer (`detector/mod.rs:120`): in `12:30:alice@example.com` the IPv6 match
  `12:30:a` displaces the address.
- A card number next to other digits is part of a longer match, and missed if
  that fails the check (`detector/regex.rs:52`). The digits of every script count
  for the pattern, only those of ASCII for the check: of four Arabic-Indic digits
  and a card in groups of four, the first sixteen digits match and fail it.
- A request whose detection hangs is never answered, and those that wait for its
  thread are not either: `Answered` ends there.
- A send error of NER other than a failed connect or a timeout fails the request
  (`detector/ner.rs:201`; `REQUIREMENTS.md:141` says "never fail the request").
- Without a config file the environment overrides no field but the three whose
  variables clap reads itself: `load_config` takes `Config::default()` and never
  calls `apply_env_overrides` (`main.rs:193`). `REQUIREMENTS.md:218` says
  "Environment variable overrides MUST be supported for all fields", and the table
  of the repository's README (lines 116-128) names nine variables.
- Of the fields in `config.rs` the environment covers no more than those of that
  table, with a file too (`config.rs:413`), where `REQUIREMENTS.md:218` wants all.
- Without a config file nothing is validated, with one the command line is not
  (`main.rs:193`): `upstream.url` may be empty then.
- The mode of the secret file is never verified (`REQUIREMENTS.md:261` wants a
  start refused); an empty file, as a crash inside `init` leaves it, is accepted
  as a secret (`main.rs:234`), and `init` refuses to replace it.
- Two inits that overlap may both find no file (`main.rs:96`), and the second
  writes over a secret that a start has read. An init whose file is deleted before
  it writes ends with an error and leaves no secret.
- `backends = ["presidio"]` is accepted and finds nothing, without a word
  (`presidio.rs:73`).

The passing properties are stated so that they are what does hold:
`RestoredWithinLifetime` is about recognised tokens, `ChunkingInvisible` about
streams in which no release ends inside a word, the run *sse* has no text in the
event with the finish reason and one text per path, `TextsConserved` is about
the first choice's delta, takes an item without an `index` to be who its
position says and leaves out a text to whose place another is flushed
(`SharesFlush`), `SignalsKept` lets go of empty containers and of nulls in
arrays, `IsolatedCardFound` says how much room a card needs, *detection* has no
item without text, `OwnRowsOutlive` is about live requests (not ones that hang)
and a `Ttl` that fits, `Precedence` says nothing of the environment where there
is no file, `FileConfigLegal` leaves out the command line, `SecretKept` is about
inits that do not overlap, and `SecretWhole` about inits that were not cut short.

## 5. Fairness

*Proxy*: weak fairness of `ThreadsFree /\ Handle(r)` for each request: the
runtime polls every task that can run, as long as no detection keeps a thread
for itself (`Hang`); after that nothing is assumed of any handler, and
`Answered` asks for nothing. No fairness makes a detection hang, nor keeps it
from it. `Handle` includes `Fail`, which stands for the total timeout of the
upstream client, but neither `Answer` nor `Relay`: the upstream need not answer.
Weak fairness of `CliPurge` (a purge that began ends) and of `Tick`. No one need
send a request or begin a purge. That `Answered` holds without fairness of the
upstream is due to the timeout: the mutant `FailWithoutTimeout` violates it.

*SseStream*: weak fairness of the task, whose wait for the upstream ends with
the total timeout (`Close`), and of `Read`: a client reads until it leaves. The
code has no timeout against a client that does neither; such a client holds the
task at `send`, and `StreamEnds` would not hold. `HearsAll` of Subscription needs
the same two and no more.

*Detection*: weak fairness of `Search \/ NextItem \/ EndOfSearch`, the turns of a
loop that awaits nothing and holds no lock. The scan before it and the NER call
need none: `SearchEnds` begins where they have ended.

## 6. The proofs

All theorems are for every value of the constants that satisfies the `ASSUME`s
of the modules. TLC evaluates those on the instances of the runs, and checks
each property on a run before it is proved. Every invariant of a passing run is
stated by a theorem.

**ProxyProofs.** Three layers, each inductive relative to those before it.

- `TypeInv` = `TypeOK` and what `pend` means at each label: while storing, the
  places still hold values; while restoring, tokens the upstream wrote.
  `BodyInv`: a leaf that is off `todo` has no structured value except at places
  still pending. Hence `TypeCorrect` and `NothingStructuredForwarded`.
- `KeyInv`: every row's token is the token of its value, and a reply differs
  from the response only where a row's value was put. With `NoCollision`,
  `RepliesFaithful`. Without it the theorem is false: another value with the
  same token would be restored.
- `TimeInv`: every reading of the clock a live handler or a purge holds is no more
  than `Lifetime` old, and no live handler is older. `TtlFits`: `Ttl` and the last
  time together fit an `i64`, so that `ExpiresAt` adds (`ExpiresAtFits`); without
  it the theorem is false. With `TtlFits`, `NoCollision` and
  `2 * Lifetime < Ttl`, `OwnRowsOutlive` is inductive over it: a replacing
  store renews the row by a reading at most `Lifetime` old, and a purge with
  any reading leaves it. `RestoredInv` adds what was already restored. Hence
  `RowsOutlive` and `OwnTokensRestored`.

**SequenceLemmas.** Induction over data is not to be had from an induction
principle here, because the provers cannot instantiate one. `NaturalInduction`
therefore is about sets of numbers: a set that has 0, and with each number the
next, has all of them. Each proof below that is by induction defines the set of
lengths its claim holds for. `FoldExists` gives the function that a recursive
definition over a sequence chooses; what follows is about `FlattenSeq`, the
concatenation of the sequences of a sequence.

**StreamDetokProofs.**

- `StreamInv` says where the sequences lie in the text: `released` is its
  beginning, `buffer` what follows up to `given`, both ends are boundaries of
  characters, and the distance between them is bounded. The lemma `FloorOfSlice`
  (rounding down moves the split by less than the bytes of a character, which in
  UTF-8 text is three at most) is what the bounds rest on. Theorems:
  `OrderKept`, `WindowHeld`, `BufferStaysBounded`, `CharactersStayWhole`.
- `ChunksLeaveNoTrace` is `ChunkingInvisible` for every non-empty window.
  `Detokenize` of a text is the concatenation of what becomes of each of its
  bytes (`DetokenizePieces`), and of two texts it is the concatenation of their
  results unless a word goes on from one into the other (`DetokenizeConcat`): the
  pattern begins and ends at word boundaries. `DetokInv` says that it never does
  between `released` and `buffer`, while no release was `cut`. The hypothesis
  `Window > 0` (512 in the code) is needed: without a window there is nothing
  behind the split to tell whether a word goes on, and a later chunk may.
- The refinement. `StreamImplementsDelayLine` is `Spec => DelaysOnly` with the
  whole abstract specification, which has no fairness: `StreamInv` gives the
  places of `input` and `passed` in the text (`LinePlaces`), `DelayedInit` and
  `DelayedStep` map the initial states and each action (`Hold` and `Release` to
  `Push`, `Flush` to `Close`).

**SseStreamProofs.** What was sent is what the client has, what is in the channel
and what waits for room, in this order (`Sent`). Only a step of the loop adds to
it, and at its end; `Send` and `Read` move the events along it. So each property
of what the client has received follows from an invariant about `Sent`, in which
the channel does not occur.

- `Typed` for `TypeCorrect`: `SseStream.TypeOK`, for all scripts, capacities and
  windows. The invariant has more than types: a loop that is left has emptied its
  buffers, and a task that has ended its outbox.
- `SignalsSent` for `SignalsReachTheClient`: the signals of `Sent`, in their order
  and with their number, are those of the events read so far (`Handled`). Events a
  flush makes have none.
- `EndingSent` for `EndingsComeLast`: nothing in `Sent` follows `[DONE]`, no text
  follows the finish event, and where the finish event is, the buffers are empty.
- `Conserved` for `TextsComeInOrder` and `NoTextIsKept`: of each owner, the text
  in `Sent`, and behind it what the buffer will give, is what the upstream has
  said. `HeardInv` is what remains of that for a client that has left.
- `KeepsSubscriptionSafely`: `Subscription!Init` and `[][Subscription!Next]`,
  under the mapping, from the same invariants. Not `Subscription`'s fairness:
  see below.

The last four assume `FinishAfterText`, and the last three `OneChoice`: one
choice, whose texts have a path each, and no text in or after the event with the
finish reason. Section 4 has what happens otherwise. `MCScriptsAssumption` has
TLC confirm that the scripts of the run *sse* satisfy both.

**StreamEventProofs.** For events of any depth and size, with the strings visited
in any order.

- A path leads through an event if at each of its values there is something at the
  next segment (`Valid`). Two different paths to strings part somewhere
  (`StringsPart`: a string has nothing below it). A change at the end of one
  rebuilds the values on its way (`ChangedAt`) and leaves the way of the other,
  behind the parting, as it was; so does a removal, which takes a field from an
  object or puts a null into an array, so that no item moves.
- `EventInv`, in `EventInvariant`: the tree `Becomes`, path by path, what its
  visited strings make of the event, whatever their order was; then it is what
  pruning makes of such a tree; and what is in the buffers, in `passed` and in
  `flushed` is what the strings and the pruned tree determine. That unvisited
  strings are in their places is `PathsStay`.
- Pruning. `Stems(v, p, q)`: what is at `q` in the pruned tree is what pruning
  makes of the value at `p`, under the same keys and at positions that are no
  greater. Everything that is plain has such a `q`, because no container above
  it is empty, and whatever is left has such a `p`. Its address is the same,
  where the number that gives an item its address is kept with the item, or
  where nothing before the item goes (`Steady`). Hence `SignalsAreKept`.
- The event made for a tail has nothing but blanks beside the way to the text
  (`BareWay`), so it is read there and nowhere else: with that, and what is left
  of a text where it was split, `TextsAreConserved`.
- `SseStreamAgrees`: the texts by owner (`PiecesAgree`), the finish reason
  (`FinishAgrees`) and whether there is anything in the first delta
  (`OtherAgrees`, `DeltaAgrees`) are the same in the event and the pruned tree,
  once all strings have been visited (`Settled`), so the decision is the same
  (`ForwardedAgrees`). `RestAgrees` and `FlushAgrees` are about the buffers and
  the events made of them; beside the text such an event has nothing plain in
  its delta (`Hollow`).

The last three assume `Regular`: an `index` is a number, the first delta an
object, and items have an `index` or are not moved. `TextsAreConserved` also
assumes `InOrder`, that items stand where their indexes say: otherwise a tail is
flushed to the position, which is someone else's (section 4). `SseStreamAgrees`
assumes `FirstStays` and, because a path longer than `MaxDepth` is not read,
`FlushesFit`. `MCRegular` has TLC confirm that the inputs of the run *event*
satisfy all four.

**PipelineProofs, Detection.**

- `DetectionInv` for `DetectionTyped`: types, and which variables are in use
  where.
- `CardsInv` for `IsolatedCardsFound`: a card that stands by itself has been
  found, or lies wholly ahead of the scan. The lemma `NoOverreach`: no match
  reaches into it from before or out of it behind, because the pattern allows
  one separator at a time.
- `SlipsCaught`: the Luhn sum as a sum of contributions by place (`LuhnBySum`);
  two digits at one place never contribute the same modulo 10 (`LuhnSlip`).
- `ProseIsIgnored`: the scan of an answer goes like the scan of the array it has
  behind the prose up to the bracket that ends it (`ScanOfPrefix`, `ArrayEnd`), so
  that both attempts of `ParseItems` come to the items of the array.
- `SearchInv` for `EveryOccurrenceIsTouched`: the items done are complete (each
  occurrence begins in an entity that does not begin after it), the entities of
  one item do not overlap (`Apart`), and of the current item all before `from`
  is done (`Progress`). An item named twice finds again what it found. An item
  without text never lets the search be done, so of such an answer the theorem
  says nothing; the run *detect_hang* is about it.

**PipelineProofs, Spans.**

- `SpansInv`: what was taken from the list is kept or overlaps a kept span of no
  lower priority (`MergeInv`), the same of the tokenizer with lengths (`SkipInv`),
  and kept spans that overlap differ in priority (`DisjointInv`). `MergeInv` needs
  that what comes later never precedes what is kept, because identical spans are
  dropped whatever their priority. Theorems: `SpansInvariant`, `DropsForBetter`,
  `SkipsForLonger`, `OneDetectorSuffices`.
- `PlaceInv` for `TokensStandInPlace`: the spans to be substituted are disjoint,
  those still to come lie before those that are done, and the text put together
  so far is the original with these exchanged. Before a span to come the text is
  as it was (`ReplaceRangeInPlace`), so its offsets are right.

**ConfigLoadProofs.** `Stages` says for each value of `pc` what `cfg` is, as an
expression of the three sources: it is inductive because the sources never
change. `FileConfigsLegal`, `SourcesInOrder` and `RefusalsHaveCause` follow from
it without another induction. All fields and all sources, from
`ConfigAssumption` alone.

**InstallationProofs.** One inductive invariant per property, each with
`TypeOK`: `KeysMatch` (while nothing was disturbed, a process that has opened
the vault has the key of the secret in the file, one that serves the key of its
tokenizer's secret, and every row, on the disk too, is sealed with the key of
the secret its token is made with) for `RowsStayReadable`; `TokensBacked`
(stored and not yet sent tokens are backed too) for `SentTokensStayBacked`;
`FilePending` (an incomplete file has an init still at work on it that holds it,
a loose one an init that has yet to set the mode) for `SecretStaysWhole`, with
any number of inits and deletes; `AsFound` (while no inits overlap, one is under
way at most, and what it has seen of the file still holds) for `SecretStays`.
Without its exception for inits that overlap the theorem is false.

Model-checked only: `Answered`, `StreamEnds` and `SearchEnds`, which are
liveness, and the part of the refinement `KeepsSubscription` that is. The prover
has no rules for fairness.

## 7. What is not modelled

- *Streaming*: keep-alive comments, and which of the lines around a skipped
  chunk still parse: a script may have such an event or lose it (`Skip`). What
  `StreamEvent` has and `SseStream` has not (strings outside the buffered paths,
  pruning, array positions) is checked for one event.
- *Vault*: `stats`, which only reads; `SQLITE_BUSY` other than as a call that
  fails. *Proxy* has 64-bit expiries and bounded time, so a clock that reaches
  2^63 seconds is not in it.
- *Regex detector*: the patterns other than that of credit cards. They are handed
  to the regex library as they are; a model of them would be one of the library.
- *Presidio detector*: a stub without behaviour.
- *URL joining, header validation, `~` in paths, errors, logging*: pure functions
  or wording.
- *Installation* has no expiry and one type of values, and `VaultTable` has one
  key: what they share, the replacement of a row by its token, is in both.
- Keys and numbers of a JSON body: neither the tokenizer nor the detokenizer
  looks at them, only at strings.
- A body with strings in `ProtocolLeaf` goes upstream as it is, in the code and
  in the model; the properties say so by leaving those leaves out.

## 8. The plan

Done, in this order, because the privacy and the fidelity of replies are what
the program is for: `Tokens`, `VaultTable`, `Proxy` with its proofs,
`StreamDetok` with its proofs, `SseStream`, `Spans` with its proofs; then the
life cycle of an installation (`ConfigLoad`, `Installation`, with their proofs),
what the detectors do themselves (`Cards`, `Ner`, `Detection`), the abstract
specifications `DelayLine` and `Subscription`, and the JSON of stream events
(`JsonTree`, `StreamEvent`).

Then the proofs about the results of recursive definitions, which the
`SequenceLemmas` made possible: `ChunkingInvisible`, the properties of `SseStream`
with the safety of its refinement, `SubstitutedInPlace`, those of `Detection`, and
the four of `StreamEvent`.

Next: `Proxy` with a streamed request beside one-body requests over one vault.
