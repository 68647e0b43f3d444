-------------------------- MODULE ConfigLoadProofs ---------------------------
(***************************************************************************)
(* Proofs about ConfigLoad, for every file, environment and command line.  *)
(*                                                                         *)
(* The three properties speak of the configuration a command gets; the     *)
(* invariant says what it is on the way there, stage by stage.             *)
(***************************************************************************)
EXTENDS ConfigLoad, TLAPS

Sources ==
  /\ file \in Toml \cup {NoFile, Damaged}
  /\ env \in Environments
  /\ flags \in CommandLines

(* What Config::load returns, if it does. *)
Loaded == EnvOverrides(FromRaw(file), env)

(* What load_config has before the command line. *)
Base ==
  \/ file = NoFile /\ cfg = Default
  \/ file \in Toml /\ cfg = Loaded /\ Validate(Loaded)

WithFlags(c) ==
  [f \in Field |-> IF f \in CliGiven(flags, env) THEN CliValue(flags, env, f) ELSE c[f]]

Stages ==
  /\ pc = "override" => file \in Toml /\ cfg = FromRaw(file)
  /\ pc = "validate" => file \in Toml /\ cfg = Loaded
  /\ pc = "flags" => Base
  /\ Configured =>
       \/ file = NoFile /\ cfg = WithFlags(Default)
       \/ file \in Toml /\ cfg = WithFlags(Loaded) /\ Validate(Loaded)
  /\ pc = "refused" => file = Damaged \/ (file \in Toml /\ ~Validate(Loaded))
  /\ pc = "serving" => detectors = Pipeline(cfg["detection.backends"])

ConfigInv == Sources /\ Stages

-----------------------------------------------------------------------------
LEMMA InitConfigInv == Init => ConfigInv
BY DEF Init, ConfigInv, Sources, Stages, Configured

LEMMA ConfigInvStep == ConfigInv /\ [Next]_vars => ConfigInv'
<1> SUFFICES ASSUME ConfigInv, [Next]_vars PROVE ConfigInv'
  OBVIOUS
<1>1. CASE UNCHANGED vars
  BY <1>1 DEF vars, inputs, ConfigInv, Sources, Stages, Configured, Loaded, Base, WithFlags
<1>2. Next => Sources' /\ Loaded' = Loaded /\ \A c : WithFlags(c)' = WithFlags(c)
  BY DEF Next, ReadFile, RefuseFile, UseDefaults, ApplyEnv, Accept, RefuseConfig, ApplyFlags,
         Check, Serve, inputs, ConfigInv, Sources, Loaded, WithFlags
<1>3. CASE ReadFile
  BY <1>2, <1>3 DEF Next, ReadFile, inputs, ConfigInv, Stages, Configured
<1>4. CASE RefuseFile
  BY <1>2, <1>4 DEF Next, RefuseFile, inputs, ConfigInv, Stages, Configured
<1>5. CASE UseDefaults
  BY <1>2, <1>5 DEF Next, UseDefaults, inputs, ConfigInv, Stages, Configured, Base
<1>6. CASE ApplyEnv
  BY <1>2, <1>6 DEF Next, ApplyEnv, inputs, ConfigInv, Stages, Configured, Loaded
<1>7. CASE Accept
  BY <1>2, <1>7 DEF Next, Accept, inputs, ConfigInv, Stages, Configured, Base
<1>8. CASE RefuseConfig
  BY <1>2, <1>8 DEF Next, RefuseConfig, inputs, ConfigInv, Stages, Configured
<1>9. CASE ApplyFlags
  <2>1. cfg' = WithFlags(cfg) /\ file' = file
    BY <1>9 DEF ApplyFlags, WithFlags, inputs
  <2>2. pc' = "ready" /\ Base
    BY <1>9 DEF ApplyFlags, ConfigInv, Stages
  <2> QED BY <1>2, <1>9, <2>1, <2>2 DEF Next, ConfigInv, Stages, Configured, Base
<1>10. CASE Check
  BY <1>2, <1>10 DEF Next, Check, inputs, ConfigInv, Stages, Configured
<1>11. CASE Serve
  BY <1>2, <1>11 DEF Next, Serve, inputs, ConfigInv, Stages, Configured
<1> QED
  BY <1>1, <1>3, <1>4, <1>5, <1>6, <1>7, <1>8, <1>9, <1>10, <1>11 DEF Next

(* How a configuration comes about, stage by stage. *)
THEOREM ConfigStages == Spec => []ConfigInv
BY InitConfigInv, ConfigInvStep, PTL DEF Spec

-----------------------------------------------------------------------------
(* What the file and the environment make of a field, two ways. *)
LEMMA LoadedField ==
  ASSUME file \in Toml, NEW f \in Field
  PROVE  Loaded[f] = FromFileAndEnv(f)
BY DEF Loaded, EnvOverrides, FromRaw, FromFileAndEnv

(* A field of the command line has a variable that is taken as it is. *)
LEMMA CliFieldPlain ==
  ASSUME Sources, NEW f \in DOMAIN env \cap CliField
  PROVE  FromFileAndEnv(f) = env[f]
<1>1. f \notin NumberField /\ f # "presidio.fallback_to_regex"
  BY DEF CliField, NumberField
<1>2. f \in Usable(env) /\ Setting(env, f) = env[f]
  BY <1>1 DEF Usable, Setting
<1> QED BY <1>2 DEF FromFileAndEnv

LEMMA FlagsField ==
  ASSUME Sources, NEW c, NEW f \in Field
  PROVE  WithFlags(c)[f] = IF f \in DOMAIN flags THEN flags[f]
                           ELSE IF f \in DOMAIN env \cap CliField THEN env[f]
                           ELSE c[f]
BY DEF WithFlags, CliGiven, CliValue

LEMMA FlagsAreCli == Sources => DOMAIN flags \subseteq CliField /\ CliField \subseteq Field
BY ConfigAssumption DEF Sources, CliField, Field

(***************************************************************************)
(* With a file, what validate would refuse can only come from an option.   *)
(***************************************************************************)
THEOREM FileConfigsLegal == Spec => []FileConfigLegal
<1>1. ConfigInv => FileConfigLegal
  <2> SUFFICES ASSUME ConfigInv, Configured, file # NoFile, NEW f \in Field, f \notin DOMAIN flags
               PROVE  Legal(f, cfg[f])
    BY FlagsAreCli DEF FileConfigLegal, ConfigInv
  <2>1. file \in Toml /\ cfg = WithFlags(Loaded) /\ Validate(Loaded)
    BY DEF ConfigInv, Stages
  <2>2. cfg[f] = Loaded[f]
    <3>1. CASE f \in DOMAIN env \cap CliField
      BY <2>1, <3>1, FlagsField, CliFieldPlain, LoadedField DEF ConfigInv
    <3>2. CASE f \notin DOMAIN env \cap CliField
      BY <2>1, <3>2, FlagsField DEF ConfigInv
    <3> QED BY <3>1, <3>2
  <2> QED BY <2>1, <2>2 DEF Validate
<1> QED BY <1>1, ConfigStages, PTL

(***************************************************************************)
(* An option counts always; where there is a file, each other field comes  *)
(* from the first source that sets it.                                     *)
(***************************************************************************)
THEOREM SourcesInOrder == Spec => []Precedence
<1>1. ConfigInv => Precedence
  <2> SUFFICES ASSUME ConfigInv, Configured PROVE Precedence
    BY DEF Precedence
  <2>1. \/ file = NoFile /\ cfg = WithFlags(Default)
        \/ file # NoFile /\ file \in Toml /\ cfg = WithFlags(Loaded)
    BY ConfigAssumption DEF ConfigInv, Stages
  <2>2. ASSUME NEW f \in DOMAIN flags PROVE cfg[f] = flags[f]
    BY <2>1, FlagsAreCli, FlagsField DEF ConfigInv
  <2>3. ASSUME file # NoFile, NEW f \in Field \ DOMAIN flags
        PROVE  cfg[f] = FromFileAndEnv(f)
    <3>1. CASE f \in DOMAIN env \cap CliField
      BY <2>1, <2>3, <3>1, FlagsField, CliFieldPlain DEF ConfigInv
    <3>2. CASE f \notin DOMAIN env \cap CliField
      BY <2>1, <2>3, <3>2, FlagsField, LoadedField DEF ConfigInv
    <3> QED BY <3>1, <3>2
  <2>4. ASSUME file # NoFile, pc = "serving", NEW d \in Backends
        PROVE  d \in detectors <=> d \in {"regex"} \cup FromFileAndEnv("detection.backends")
    <3> DEFINE b == "detection.backends"
    <3>1. detectors = Pipeline(cfg[b])
      BY <2>4 DEF ConfigInv, Stages
    <3>2. b \in Field \ DOMAIN flags
      BY FlagsAreCli DEF ConfigInv, CliField, Field
    <3> QED BY <2>3, <2>4, <3>1, <3>2 DEF Pipeline, Backends
  <2> QED BY <2>2, <2>3, <2>4 DEF Precedence
<1> QED BY <1>1, ConfigStages, PTL

(***************************************************************************)
(* A start is refused exactly for a file that cannot be used, or that,     *)
(* with the environment, is out of range.                                  *)
(***************************************************************************)
THEOREM RefusalsHaveCause == Spec => []RefusedForCause
<1>1. ConfigInv => RefusedForCause
  <2> SUFFICES ASSUME ConfigInv PROVE RefusedForCause
    OBVIOUS
  <2>1. file \in Toml => (Validate(Loaded) <=> \A f \in Field : Legal(f, FromFileAndEnv(f)))
    BY LoadedField DEF Validate
  <2>2. pc = "refused" => file = Damaged \/ (file \in Toml /\ ~Validate(Loaded))
    BY DEF ConfigInv, Stages
  <2>3. Configured => file = NoFile \/ (file \in Toml /\ Validate(Loaded))
    BY DEF ConfigInv, Stages
  <2> QED BY <2>1, <2>2, <2>3, ConfigAssumption DEF RefusedForCause
<1> QED BY <1>1, ConfigStages, PTL
=============================================================================
