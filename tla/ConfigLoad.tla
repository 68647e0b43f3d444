----------------------------- MODULE ConfigLoad -----------------------------
(***************************************************************************)
(* How one run of `privox` comes to its settings: Config::load of          *)
(* src/config.rs and load_config of src/main.rs, from the TOML file, the   *)
(* environment and the command line to the command that uses them.         *)
(*                                                                         *)
(* A configuration is a function from fields to settings.  Strings are     *)
(* strings, numbers numbers, a score threshold is in hundredths, and the   *)
(* list of backends is a set: nothing depends on its order.                *)
(***************************************************************************)
EXTENDS Naturals

CONSTANTS
  Toml,          \* the files that parse: what a file sets, field by field
  NoFile,        \* there is no file at the path of --config
  Damaged,       \* the file cannot be read, or is not TOML of the right types
  Environments,  \* the variables set, by the field they are for: their texts
  CommandLines,  \* the options given, by the field they are for
  ParseNumber,   \* str::parse, on the texts that are numbers
  Lower          \* str::to_lowercase, on the texts it changes

Field ==
  {"proxy.listen", "upstream.url", "upstream.timeout_secs", "vault.path",
   "vault.ttl_hours", "detection.backends", "ner.url", "ner.model",
   "ner.timeout_secs", "presidio.analyzer_url", "presidio.timeout_secs",
   "presidio.language", "presidio.score_threshold",
   "presidio.fallback_to_regex", "log.level"}

(* The fields with a variable PRIVOX_..., and those that hold a number. *)
EnvField ==
  {"proxy.listen", "upstream.url", "upstream.timeout_secs", "vault.path",
   "vault.ttl_hours", "log.level", "presidio.analyzer_url",
   "presidio.score_threshold", "presidio.fallback_to_regex"}

NumberField ==
  {"upstream.timeout_secs", "vault.ttl_hours", "presidio.score_threshold"}

(* --listen, --upstream and --log-level. *)
CliField == {"proxy.listen", "upstream.url", "log.level"}

(* RawConfig: what a file may set; nothing in it is required. *)
RawConfig(t) == DOMAIN t \subseteq Field

ASSUME ConfigAssumption ==
  /\ NoFile \notin Toml
  /\ Damaged \notin Toml
  /\ NoFile # Damaged
  /\ \A t \in Toml : RawConfig(t)
  /\ \A e \in Environments : DOMAIN e \subseteq EnvField
  /\ \A c \in CommandLines : DOMAIN c \subseteq CliField

VARIABLES
  pc,        \* where load_config or the command is
  file,      \* what is at the path of --config: NoFile, Damaged, or a file
  env,       \* the environment of the process
  flags,     \* its command line
  cfg,       \* the configuration so far
  detectors  \* the pipeline serve built

vars == <<pc, file, env, flags, cfg, detectors>>
inputs == <<file, env, flags>>

-----------------------------------------------------------------------------
(* Config::default *)
Default ==
  [f \in Field |->
     CASE f = "proxy.listen" -> "127.0.0.1:11435"
       [] f = "upstream.url" -> ""
       [] f = "upstream.timeout_secs" -> 120
       [] f = "vault.path" -> "~/.privox/vault.db"
       [] f = "vault.ttl_hours" -> 24
       [] f = "detection.backends" -> {"regex"}
       [] f = "ner.url" -> "http://localhost:11434"
       [] f = "ner.model" -> "qwen2.5:0.5b"
       [] f = "ner.timeout_secs" -> 10
       [] f = "presidio.analyzer_url" -> "http://localhost:5002"
       [] f = "presidio.timeout_secs" -> 5
       [] f = "presidio.language" -> "en"
       [] f = "presidio.score_threshold" -> 70
       [] f = "presidio.fallback_to_regex" -> TRUE
       [] f = "log.level" -> "info"]

(* Every field a file may leave out: the default stands for it. *)
FromRaw(raw) ==
  [f \in Field |-> IF f \in DOMAIN raw THEN raw[f] ELSE Default[f]]

(* A variable that holds no number where one is needed is as good as unset. *)
Usable(e) == {f \in DOMAIN e : f \in NumberField => e[f] \in DOMAIN ParseNumber}

(* What v.to_lowercase() is compared with; every other text says no. *)
Lowercase(v) == IF v \in DOMAIN Lower THEN Lower[v] ELSE v
Affirmative == {"true", "1", "yes"}

Setting(e, f) ==
  IF f \in NumberField THEN ParseNumber[e[f]]
  ELSE IF f = "presidio.fallback_to_regex" THEN Lowercase(e[f]) \in Affirmative
  ELSE e[f]

(* Mutant: a text that is no number counts as zero. *)
ZeroOverrides(c, e) ==
  [f \in Field |-> IF f \in Usable(e) THEN Setting(e, f)
                   ELSE IF f \in DOMAIN e THEN 0 ELSE c[f]]

EnvOverrides(c, e) ==
  [f \in Field |-> IF f \in Usable(e) THEN Setting(e, f) ELSE c[f]]

Levels == {"trace", "debug", "info", "warn", "error"}
Backends == {"regex", "ner", "presidio"}

(* What validate asks of a field; of most it asks nothing. *)
Legal(f, v) ==
  /\ f = "upstream.url" => v # ""
  /\ f \in {"upstream.timeout_secs", "vault.ttl_hours"} => v # 0
  /\ f = "log.level" => v \in Levels
  /\ f = "detection.backends" => v \subseteq Backends
  /\ f = "presidio.score_threshold" => v \in 0 .. 100

(* Mutant: forgets the last check. *)
ValidateMost(c) == \A f \in Field \ {"presidio.score_threshold"} : Legal(f, c[f])

Validate(c) == \A f \in Field : Legal(f, c[f])

(* What clap gives for an option: it reads the same variables itself. *)
CliGiven(c, e) == DOMAIN c \cup (DOMAIN e \cap CliField)

(* Mutant: the variable goes first. *)
CliValueEnvFirst(c, e, f) == IF f \in DOMAIN e THEN e[f] ELSE c[f]

CliValue(c, e, f) == IF f \in DOMAIN c THEN c[f] ELSE e[f]

(* ner_enabled and presidio_enabled; the regex detector needs no asking. *)
Pipeline(backends) == {"regex"} \cup (backends \cap {"ner", "presidio"})

-----------------------------------------------------------------------------
Init ==
  /\ pc = "load"
  /\ file \in Toml \cup {NoFile, Damaged}
  /\ env \in Environments
  /\ flags \in CommandLines
  /\ cfg = Default
  /\ detectors = {}

(* Config::load, from the bytes of the file to from_raw. *)
ReadFile ==
  /\ pc = "load"
  /\ file \in Toml
  /\ cfg' = FromRaw(file)
  /\ pc' = "override"
  /\ UNCHANGED <<inputs, detectors>>

RefuseFile ==
  /\ pc = "load"
  /\ file = Damaged
  /\ pc' = "refused"
  /\ UNCHANGED <<inputs, cfg, detectors>>

(* Config::default(), with a warning: no variables, no validation. *)
UseDefaults ==
  /\ pc = "load"
  /\ file = NoFile
  /\ cfg' = Default
  /\ pc' = "flags"
  /\ UNCHANGED <<inputs, detectors>>

ApplyEnv ==
  /\ pc = "override"
  /\ cfg' = EnvOverrides(cfg, env)
  /\ pc' = "validate"
  /\ UNCHANGED <<inputs, detectors>>

Accept ==
  /\ pc = "validate"
  /\ Validate(cfg)
  /\ pc' = "flags"
  /\ UNCHANGED <<inputs, cfg, detectors>>

RefuseConfig ==
  /\ pc = "validate"
  /\ ~Validate(cfg)
  /\ pc' = "refused"
  /\ UNCHANGED <<inputs, cfg, detectors>>

(* The end of load_config. *)
ApplyFlags ==
  /\ pc = "flags"
  /\ cfg' = [f \in Field |-> IF f \in CliGiven(flags, env)
                               THEN CliValue(flags, env, f) ELSE cfg[f]]
  /\ pc' = "ready"
  /\ UNCHANGED <<inputs, detectors>>

(* cmd_check: "Config:  OK" *)
Check ==
  /\ pc = "ready"
  /\ pc' = "checked"
  /\ UNCHANGED <<inputs, cfg, detectors>>

(* cmd_serve, as far as it follows the configuration. *)
Serve ==
  /\ pc = "ready"
  /\ detectors' = Pipeline(cfg["detection.backends"])
  /\ pc' = "serving"
  /\ UNCHANGED <<inputs, cfg>>

Next ==
  \/ ReadFile \/ RefuseFile \/ UseDefaults
  \/ ApplyEnv \/ Accept \/ RefuseConfig \/ ApplyFlags
  \/ Check \/ Serve

Spec == Init /\ [][Next]_vars

-----------------------------------------------------------------------------
(* load_config has returned. *)
Configured == pc \in {"ready", "checked", "serving"}

(* What the sources below the command line make of a field. *)
FromFileAndEnv(f) ==
  IF f \in Usable(env) THEN Setting(env, f)
  ELSE IF f \in DOMAIN file THEN file[f]
  ELSE Default[f]

(***************************************************************************)
(* Where there is a file, nothing a variable or the file says gets past    *)
(* validate, whichever of them says it: only a field the command line can  *)
(* set may be out of range.                                                *)
(***************************************************************************)
FileConfigLegal ==
  Configured /\ file # NoFile =>
    /\ \A f \in Field \ CliField : Legal(f, cfg[f])
    /\ \A f \in Field : Legal(f, cfg[f]) \/ f \in DOMAIN flags

(***************************************************************************)
(* What an option says counts always.  Where there is a file, each other   *)
(* field comes from the first source that sets it: the environment if its  *)
(* text can be used, the file, the default; and the detectors are those    *)
(* of the same order.  Nothing is claimed of the environment where there   *)
(* is no file: the documents want it to count, and load_config ignores it. *)
(***************************************************************************)
Precedence ==
  Configured =>
    /\ \A f \in DOMAIN flags : cfg[f] = flags[f]
    /\ file # NoFile =>
         /\ \A f \in Field \ DOMAIN flags : cfg[f] = FromFileAndEnv(f)
         /\ pc = "serving" =>
              \A d \in Backends :
                d \in detectors <=> d \in {"regex"} \cup FromFileAndEnv("detection.backends")

(***************************************************************************)
(* A start is refused for a reason a reader of the file and of the         *)
(* environment can see, and always when there is one: no option of the     *)
(* command line makes up for a field they leave empty.                     *)
(***************************************************************************)
RefusedForCause ==
  LET cause == \/ file = Damaged
               \/ file \in Toml /\ \E f \in Field : ~Legal(f, FromFileAndEnv(f))
  IN /\ pc = "refused" => cause
     /\ Configured => ~cause
=============================================================================
