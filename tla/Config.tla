------------------------------- MODULE Config -------------------------------
(***************************************************************************)
(* From a configuration file to registered tenants: Config::load with its  *)
(* environment overrides, validation and clamping (src/config.rs,          *)
(* src/wasi/sandbox.rs), and the part of Runtime::build that uses the      *)
(* result (src/runtime.rs).  Pulling components is module HotReload.       *)
(*                                                                         *)
(* A byte count in the file is digits and a unit; digits is None when      *)
(* there are none.  Names and component sources are either well-formed,    *)
(* that is members of Name and Source, or not.  Fields nothing checks or   *)
(* clamps are left out.                                                    *)
(***************************************************************************)
EXTENDS Integers, Sequences, FiniteSetsExt

CONSTANTS
  Width,    \* bits of usize
  Kilo,     \* what the unit k stands for, 1024 in the code
  Name,     \* names TenantId::new accepts
  Source,   \* component sources validate accepts
  RawFile,  \* contents a configuration file may have
  Bind,     \* socket addresses
  Interval, \* bound: values of pull_interval_secs
  Malformed, \* an override that does not parse
  None

\* What serde finds in a file before the byte counts are parsed.
SizeText == [digits : Nat \cup {None}, unit : STRING]
TenantText ==
  [name : STRING, source : STRING,
   limits : [mem : SizeText, instances : Nat, delta : Nat, wall : Nat,
             quota : SizeText, body : SizeText]]
FileText ==
  [engine : [mem : SizeText, instances : Nat],
   tenants : Seq(TenantText), bind : Bind, interval : Nat, body : SizeText]

ASSUME ConfigAssumption ==
  /\ Width \in Nat \ {0} /\ Kilo \in Nat \ {0}
  /\ Interval \subseteq Nat
  /\ RawFile \subseteq FileText
  /\ {None, Malformed} \cap Bind = {}
  /\ None \notin Nat /\ Malformed \notin Nat

VARIABLES
  stage,      \* how far start-up has come
  env,        \* the environment: EMBER_BIND and EMBER_PULL_INTERVAL_SECS
  raw,        \* the file that is being loaded
  config,     \* the Config, once parsed
  next,       \* the tenants build has still to register
  registered  \* registered[n]: limits of the tenant in the map, or None

vars == <<stage, env, raw, config, next, registered>>

Usize == 0..(2^Width - 1)
Limits ==
  [mem : Usize, instances : Nat, delta : Nat, wall : Nat, quota : Usize, body : Usize]

(* The one type invariant of the module. *)
TypeOK ==
  /\ stage \in {"down", "read", "layered", "loaded", "refused", "failed", "unavailable", "running"}
  /\ raw \in RawFile \cup {None}
  /\ config # None =>
       /\ config.engine.mem \in Usize /\ config.body \in Usize
       /\ \A i \in DOMAIN config.tenants : config.tenants[i].limits \in Limits
  /\ \A n \in Name : registered[n] \in Limits \cup {None}

-----------------------------------------------------------------------------
Unit == [b |-> 1, k |-> Kilo, m |-> Kilo^2, g |-> Kilo^3]

\* Faulty: the product is not checked.
NotAMemorySizeUnchecked(s) ==
  s.digits = None \/ s.digits \notin Usize \/ s.unit \notin DOMAIN Unit

\* The errors of parse_memory: no digits, digits or product out of range,
\* an unknown unit.
NotAMemorySize(s) ==
  \/ s.digits = None
  \/ s.digits \notin Usize
  \/ s.unit \notin DOMAIN Unit
  \/ s.digits * Unit[s.unit] \notin Usize

\* The value of parse_memory when it is not an error.
Bytes(s) == s.digits * Unit[s.unit]

\* deserialize_memory on every byte count of a file.
SizesOf(f) ==
  {f.engine.mem, f.body} \cup
    UNION {LET l == f.tenants[i].limits IN {l.mem, l.quota, l.body} : i \in DOMAIN f.tenants}

Deserializes(f) == f # None /\ \A s \in SizesOf(f) : ~NotAMemorySize(s)

ParsedTenant(t) ==
  [t EXCEPT !.limits.mem = Bytes(@), !.limits.quota = Bytes(@), !.limits.body = Bytes(@)]

Parsed(f) ==
  [f EXCEPT !.engine.mem = Bytes(@), !.body = Bytes(@),
            !.tenants = [i \in DOMAIN f.tenants |-> ParsedTenant(f.tenants[i])]]

\* TenantId::new succeeds.
TenantId(n) == n \in Name

\* SandboxLimits::validate, and clamp_to.
ValidLimits(l) == l.mem > 0 /\ l.wall > 0 /\ l.instances > 0 /\ l.quota > 0

\* Faulty: limits are not clamped.
Unclamped(l, e) == l

ClampTo(l, e) ==
  [l EXCEPT !.mem = Min({@, e.mem}),
            !.instances = Min({@, e.instances}),
            !.delta = Max({@, 1})]

\* Faulty: the engine's own limits are not checked.
AcceptsAnyEngine(c) ==
  \A i \in DOMAIN c.tenants :
    /\ ValidLimits(c.tenants[i].limits)
    /\ TenantId(c.tenants[i].name)
    /\ c.tenants[i].source \in Source

\* The checks of Config::validate, which precede the clamping.
Accepts(c) ==
  /\ c.engine.mem > 0 /\ c.engine.instances > 0
  /\ \A i \in DOMAIN c.tenants :
       /\ ValidLimits(c.tenants[i].limits)
       /\ TenantId(c.tenants[i].name)
       /\ c.tenants[i].source \in Source

\* EngineConfig::clamp_tenants.
ClampTenants(c) ==
  [c EXCEPT !.tenants = [i \in DOMAIN c.tenants |->
                           [c.tenants[i] EXCEPT !.limits = ClampTo(@, c.engine)]]]

\* Sandbox::new succeeds.
SandboxNew(l) == ValidLimits(l)

-----------------------------------------------------------------------------
Nothing == [n \in Name |-> None]

Init ==
  /\ stage = "down"
  /\ env = [bind |-> None, interval |-> None]
  /\ raw = None
  /\ config = None
  /\ next = << >>
  /\ registered = Nothing

(* The process is started with some file and environment.  The file is None
   if it cannot be read or is no TOML; no file at all is one with every field
   at its default.  A variable is unset (None), malformed, or a value. *)
Start(f, b, v) ==
  /\ stage = "down"
  /\ stage' = "read"
  /\ raw' = f
  /\ env' = [bind |-> b, interval |-> v]
  /\ UNCHANGED <<config, next, registered>>

(* The file is deserialized; one bad byte count refuses all of it. *)
ReadFile ==
  /\ stage = "read"
  /\ config = None
  /\ \/ /\ ~Deserializes(raw)
        /\ stage' = "refused"
        /\ UNCHANGED config
     \/ /\ Deserializes(raw)
        /\ stage' = "layered"
        /\ config' = Parsed(raw)
  /\ UNCHANGED <<env, raw, next, registered>>

(* apply_env, then validate: malformed overrides are ignored, a configuration
   that passes is clamped into the engine's budget. *)
ApplyEnv(c) ==
  [c EXCEPT !.bind = IF env.bind \in Bind THEN env.bind ELSE @,
            !.interval = IF env.interval \in Interval THEN env.interval ELSE @]

Validate ==
  /\ stage = "layered"
  /\ \/ /\ ~Accepts(ApplyEnv(config))
        /\ stage' = "refused"
        /\ UNCHANGED <<config, next>>
     \/ /\ Accepts(ApplyEnv(config))
        /\ stage' = "loaded"
        /\ config' = ClampTenants(ApplyEnv(config))
        /\ next' = config'.tenants
  /\ UNCHANGED <<env, raw, registered>>

\* Faulty: a tenant that is there already stays.
InsertedOnce(t) ==
  IF registered[t.name] = None
    THEN [registered EXCEPT ![t.name] = t.limits] ELSE registered

\* HashMap::insert.
Inserted(t) == [registered EXCEPT ![t.name] = t.limits]

(* load_tenant for the next tenant: TenantId::new and Sandbox::new check name
   and limits once more ("failed"), then the component may prove to be
   unavailable (module HotReload says when). *)
LoadTenant ==
  /\ stage = "loaded"
  /\ next # << >>
  /\ LET t == Head(next)
         sound == TenantId(t.name) /\ SandboxNew(t.limits)
     IN \/ /\ sound
           /\ registered' = Inserted(t)
           /\ next' = Tail(next)
           /\ UNCHANGED stage
        \/ /\ stage' = IF sound THEN "unavailable" ELSE "failed"
           /\ UNCHANGED <<registered, next>>
  /\ UNCHANGED <<env, raw, config>>

(* All tenants are loaded: build returns and start_background runs. *)
StartBackground ==
  /\ stage = "loaded"
  /\ next = << >>
  /\ stage' = "running"
  /\ UNCHANGED <<env, raw, config, next, registered>>

(* The process ends. *)
Exit ==
  /\ stage # "down"
  /\ stage' = "down"
  /\ env' = [bind |-> None, interval |-> None]
  /\ raw' = None
  /\ config' = None
  /\ next' = << >>
  /\ registered' = Nothing

Next ==
  \/ \E f \in RawFile \cup {None}, b \in Bind \cup {None, Malformed},
        v \in Interval \cup {None, Malformed} : Start(f, b, v)
  \/ ReadFile
  \/ Validate
  \/ LoadTenant
  \/ StartBackground
  \/ Exit

Spec == Init /\ [][Next]_vars

-----------------------------------------------------------------------------
(* A configuration that load accepted is not refused by build's own checks:
   clamping comes after the checks and must not undo them, so a bad budget
   fails before any tenant is activated (src/config.rs:8-10). *)
AcceptedBuilds == stage # "failed"

(* Every registered tenant has a budget it can run in that the engine can
   grant, whatever units, overrides and clamping produced it
   (src/wasi/sandbox.rs:105-106). *)
WithinEngine ==
  \A n \in Name : registered[n] # None =>
    /\ ValidLimits(registered[n])
    /\ registered[n].mem <= config.engine.mem
    /\ registered[n].instances <= config.engine.instances
    /\ registered[n].delta >= 1

(* Once running, the tenants are those of the file, and where the file names a
   tenant twice the later entry is in force. *)
LaterEntryWins ==
  stage = "running" =>
    \A n \in Name :
      LET at == {i \in DOMAIN config.tenants : config.tenants[i].name = n}
      IN registered[n] = IF at = {} THEN None
                         ELSE config.tenants[Max(at)].limits
=============================================================================
