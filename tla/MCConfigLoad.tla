---------------------------- MODULE MCConfigLoad ----------------------------
(***************************************************************************)
(* ConfigLoad over the fields that validate looks at, and one it does not: *)
(* each source sets any of them, rightly or wrongly, or leaves them out.   *)
(***************************************************************************)
EXTENDS ConfigLoad, TLC

LOCAL INSTANCE Functions

(* Every way to give some of the fields of options one of its settings. *)
Partial(options) ==
  UNION {{f \in [D -> UNION Range(options)] : \A d \in D : f[d] \in options[d]}
           : D \in SUBSET DOMAIN options}

MCParseNumber == ("0" :> 0) @@ ("30" :> 30) @@ ("250" :> 250)

MCLower == ("True" :> "true") @@ ("On" :> "on")

MCToml ==
  {u @@ n @@ b :
     u \in Partial(("upstream.url" :> {"", "file"}) @@ ("log.level" :> {"loud", "warn"})),
     n \in Partial(("vault.ttl_hours" :> {0, 48}) @@ ("presidio.score_threshold" :> {50, 101})),
     b \in Partial("detection.backends" :> {{"ner"}, {"regex", "gpu"}})}

MCEnvironments ==
  Partial(("upstream.url" :> {"", "env"}) @@ ("vault.ttl_hours" :> {"0", "30", "soon"})
            @@ ("presidio.score_threshold" :> {"30", "250"})
            @@ ("presidio.fallback_to_regex" :> {"True", "On"}))

MCCommandLines ==
  Partial(("upstream.url" :> {"", "option"}) @@ ("log.level" :> {"loud", "debug"}))
=============================================================================
