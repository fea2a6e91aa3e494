----------------------------- MODULE ConfigProofs -----------------------------
(***************************************************************************)
(* What load accepts, build can run: for every width of usize, every file  *)
(* and every environment.                                                  *)
(***************************************************************************)
EXTENDS Config, SequenceTheorems, TLAPS

\* A deserialized configuration and one of its tenants.
Entry == [name : STRING, source : STRING, limits : Limits]
Entries == Seq(Entry)
Configs ==
  [engine : [mem : Usize, instances : Nat],
   tenants : Entries, bind : Bind, interval : Nat, body : Usize]

\* What validate leaves in the limits of a tenant.
Granted(l, e) ==
  ValidLimits(l) /\ l.mem <= e.mem /\ l.instances <= e.instances /\ l.delta >= 1

\* A tenant has the limits of its last entry among the first k of ts.
LastOf(ts, k, n, l) ==
  \/ l = None /\ \A i \in 1..k : ts[i].name # n
  \/ \E i \in 1..k :
       /\ ts[i].name = n /\ l = ts[i].limits
       /\ \A j \in 1..k : ts[j].name = n => j <= i

\* The tenants that LoadTenant has dealt with.
Done == Len(config.tenants) - Len(next)

\* The stages with a parsed and with a validated configuration.
HasConfig == stage \in {"layered", "loaded", "unavailable", "running"}
Building == stage \in {"loaded", "unavailable", "running"}

\* The inductive invariant: from validate on every tenant's limits are granted
\* ones, and the map holds the last entry of each name among those loaded.
ConfigInv ==
  /\ stage \in {"down", "read", "layered", "loaded", "refused", "unavailable", "running"}
  /\ raw \in RawFile \cup {None}
  /\ env \in [bind : Bind \cup {None, Malformed}, interval : Interval \cup {None, Malformed}]
  /\ config = None \/ config \in Configs
  /\ stage \in {"down", "read"} => config = None
  /\ HasConfig => config \in Configs
  /\ ~Building => registered = Nothing
  /\ Building =>
       /\ \A i \in DOMAIN config.tenants :
            /\ config.tenants[i].name \in Name
            /\ Granted(config.tenants[i].limits, config.engine)
       /\ registered \in [Name -> Limits \cup {None}]
       /\ next \in Entries /\ Done \in 0..Len(config.tenants)
       /\ \A i \in 1..Len(next) : next[i] = config.tenants[Done + i]
       /\ \A n \in Name : LastOf(config.tenants, Done, n, registered[n])
  /\ stage = "running" => next = << >>

-----------------------------------------------------------------------------
(* A usize is a number. *)
LEMMA UsizeNat == Usize \subseteq Nat
BY DEF Usize

(* The operators of the library on two numbers. *)
LEMMA MinOfTwo ==
  ASSUME NEW a \in Nat, NEW b \in Nat
  PROVE  Min({a, b}) = IF a <= b THEN a ELSE b
BY DEF Min

(* The same for the larger one. *)
LEMMA MaxOfTwo ==
  ASSUME NEW a \in Nat, NEW b \in Nat
  PROVE  Max({a, b}) = IF a >= b THEN a ELSE b
BY DEF Max

(* parse_memory never yields a value that usize cannot hold. *)
LEMMA BytesFit ==
  ASSUME NEW s, ~NotAMemorySize(s)
  PROVE  Bytes(s) \in Usize
BY DEF NotAMemorySize, Bytes

(* Deserialization yields a configuration. *)
LEMMA ParsedConfig ==
  ASSUME NEW f \in RawFile, Deserializes(f)
  PROVE  Parsed(f) \in Configs
<1> DEFINE T(i) == ParsedTenant(f.tenants[i])
           ts == [i \in DOMAIN f.tenants |-> T(i)]
           e == [f.engine EXCEPT !.mem = Bytes(@)]
<1>1. f \in FileText
  BY ConfigAssumption
<1>2. /\ f.tenants \in Seq(TenantText) /\ f.interval \in Nat /\ f.bind \in Bind /\ f.body \in SizeText
      /\ f.engine \in [mem : SizeText, instances : Nat]
  BY <1>1 DEF FileText
<1>3. Bytes(f.engine.mem) \in Usize /\ Bytes(f.body) \in Usize
  BY BytesFit DEF Deserializes, SizesOf
<1>4. e \in [mem : Usize, instances : Nat]
  BY <1>2, <1>3
<1>5. \A i \in DOMAIN f.tenants :
        /\ f.tenants[i] \in TenantText
        /\ Bytes(f.tenants[i].limits.mem) \in Usize
        /\ Bytes(f.tenants[i].limits.quota) \in Usize
        /\ Bytes(f.tenants[i].limits.body) \in Usize
  <2> TAKE i \in DOMAIN f.tenants
  <2>1. f.tenants[i] \in TenantText
    BY <1>2, ElementOfSeq, LenProperties
  <2>2. /\ f.tenants[i].limits.mem \in SizesOf(f) /\ f.tenants[i].limits.quota \in SizesOf(f)
        /\ f.tenants[i].limits.body \in SizesOf(f)
    BY DEF SizesOf
  <2> QED
    BY <2>1, <2>2, BytesFit DEF Deserializes
<1>6. \A i \in DOMAIN f.tenants : T(i) \in Entry
  <2> TAKE i \in DOMAIN f.tenants
  <2> HIDE DEF Bytes
  <2> QED
    BY <1>5 DEF ParsedTenant, TenantText, Entry, Limits
<1>7. ts \in Seq(Entry)
  <2>1. DOMAIN f.tenants = 1..Len(f.tenants) /\ Len(f.tenants) \in Nat
    BY <1>2, LenProperties
  <2> HIDE DEF T
  <2> QED
    BY <1>6, <2>1, IsASeq
<1>8. Parsed(f) = [f EXCEPT !.engine = e, !.body = Bytes(@), !.tenants = ts]
  BY <1>1 DEF Parsed, FileText
<1> HIDE DEF e, ts
<1> QED
  BY <1>1, <1>2, <1>3, <1>4, <1>7, <1>8 DEF FileText, Configs, Entries

(* Overrides keep a configuration a configuration. *)
LEMMA AppliedConfig ==
  ASSUME NEW c \in Configs,
         env \in [bind : Bind \cup {None, Malformed}, interval : Interval \cup {None, Malformed}]
  PROVE  /\ ApplyEnv(c) \in Configs
         /\ ApplyEnv(c).engine = c.engine /\ ApplyEnv(c).tenants = c.tenants
BY ConfigAssumption DEF ApplyEnv, Configs

(* Clamping keeps limits valid and brings them into the engine's budget: the
   checks come first, and nothing clamping does undoes them. *)
LEMMA ClampGrants ==
  ASSUME NEW l \in Limits, NEW e \in [mem : Usize, instances : Nat],
         ValidLimits(l), e.mem > 0, e.instances > 0
  PROVE  ClampTo(l, e) \in Limits /\ Granted(ClampTo(l, e), e)
<1>1. /\ l.mem \in Nat /\ e.mem \in Nat /\ l.instances \in Nat /\ e.instances \in Nat
      /\ l.delta \in Nat /\ l.quota \in Nat /\ l.wall \in Nat /\ l.body \in Usize
  BY UsizeNat DEF Limits
<1> DEFINE m == Min({l.mem, e.mem})
           n == Min({l.instances, e.instances})
           d == Max({l.delta, 1})
<1>2. m = IF l.mem <= e.mem THEN l.mem ELSE e.mem
  BY <1>1, MinOfTwo
<1>3. n = IF l.instances <= e.instances THEN l.instances ELSE e.instances
  BY <1>1, MinOfTwo
<1>4. d = IF l.delta >= 1 THEN l.delta ELSE 1
  BY <1>1, MaxOfTwo
<1>5. ClampTo(l, e) = [l EXCEPT !.mem = m, !.instances = n, !.delta = d]
  BY DEF ClampTo
<1> HIDE DEF m, n, d
<1>6. m \in Usize /\ n \in Nat /\ d \in Nat
  BY <1>1, <1>2, <1>3, <1>4 DEF Limits
<1>7. /\ m > 0 /\ m <= e.mem /\ n > 0 /\ n <= e.instances /\ d >= 1
  BY <1>1, <1>2, <1>3, <1>4 DEF ValidLimits
<1> QED
  BY <1>5, <1>6, <1>7 DEF Limits, Granted, ValidLimits

(* validate grants every tenant of a configuration it accepts. *)
LEMMA ClampedConfig ==
  ASSUME NEW c \in Configs, Accepts(c)
  PROVE  /\ ClampTenants(c) \in Configs
         /\ \A i \in DOMAIN ClampTenants(c).tenants :
              /\ ClampTenants(c).tenants[i].name \in Name
              /\ Granted(ClampTenants(c).tenants[i].limits, ClampTenants(c).engine)
<1> DEFINE T(i) == [c.tenants[i] EXCEPT !.limits = ClampTo(@, c.engine)]
           ts == [i \in DOMAIN c.tenants |-> T(i)]
<1>1. /\ c.tenants \in Seq(Entry)
      /\ c.engine \in [mem : Usize, instances : Nat]
  BY DEF Configs, Entries
<1>2. DOMAIN c.tenants = 1..Len(c.tenants) /\ Len(c.tenants) \in Nat
  BY <1>1, LenProperties
<1>3. \A i \in DOMAIN c.tenants :
        T(i) \in Entry /\ T(i).name \in Name /\ Granted(T(i).limits, c.engine)
  <2> TAKE i \in DOMAIN c.tenants
  <2>1. c.tenants[i] \in Entry
    BY <1>1, <1>2, ElementOfSeq
  <2>2. /\ c.tenants[i].limits \in Limits /\ ValidLimits(c.tenants[i].limits)
        /\ c.engine.mem > 0 /\ c.engine.instances > 0 /\ c.tenants[i].name \in Name
    BY <2>1 DEF Accepts, Entry, TenantId
  <2>3. /\ ClampTo(c.tenants[i].limits, c.engine) \in Limits
        /\ Granted(ClampTo(c.tenants[i].limits, c.engine), c.engine)
    BY <1>1, <2>2, ClampGrants
  <2> QED
    BY <2>1, <2>2, <2>3 DEF Entry
<1>4. ClampTenants(c) = [c EXCEPT !.tenants = ts]
  BY DEF ClampTenants
<1> HIDE DEF T
<1>5. ts \in Seq(Entry)
  BY <1>2, <1>3, IsASeq
<1>6. \A i \in DOMAIN ts : ts[i] = T(i) /\ i \in DOMAIN c.tenants
  OBVIOUS
<1> HIDE DEF ts
<1>7. ClampTenants(c).tenants = ts /\ ClampTenants(c).engine = c.engine /\ ClampTenants(c) \in Configs
  BY <1>4, <1>5 DEF Configs, Entries
<1> QED
  BY <1>3, <1>6, <1>7

(* Inserting the next entry makes it the last one of its name. *)
LEMMA InsertIsLast ==
  ASSUME NEW ts \in Entries, NEW k \in Nat, k + 1 <= Len(ts),
         NEW r \in [Name -> Limits \cup {None}], ts[k + 1].name \in Name,
         \A n \in Name : LastOf(ts, k, n, r[n])
  PROVE  \A n \in Name :
           LastOf(ts, k + 1, n, [r EXCEPT ![ts[k + 1].name] = ts[k + 1].limits][n])
<1> DEFINE q == [r EXCEPT ![ts[k + 1].name] = ts[k + 1].limits]
<1> SUFFICES ASSUME NEW n \in Name PROVE LastOf(ts, k + 1, n, q[n])
  OBVIOUS
<1>1. \A i \in 1..(k + 1) : i \in 1..k \/ i = k + 1
  OBVIOUS
<1>2. k + 1 \in 1..(k + 1) /\ \A i \in 1..k : i \in 1..(k + 1) /\ i <= k + 1
  OBVIOUS
<1>3. CASE ts[k + 1].name = n
  <2>1. q[n] = ts[k + 1].limits
    BY <1>3
  <2>2. \A j \in 1..(k + 1) : j <= k + 1
    OBVIOUS
  <2> HIDE DEF q
  <2> QED
    BY <1>2, <1>3, <2>1, <2>2 DEF LastOf
<1>4. CASE ts[k + 1].name # n
  <2>1. q[n] = r[n]
    BY <1>4
  <2> HIDE DEF q
  <2>2. LastOf(ts, k, n, r[n])
    OBVIOUS
  <2> QED
    BY <1>1, <1>2, <1>4, <2>1, <2>2 DEF LastOf
<1> QED
  BY <1>3, <1>4

(* Before the process starts nothing is loaded. *)
LEMMA ConfigInit == Init => ConfigInv
<1> SUFFICES ASSUME Init PROVE ConfigInv
  OBVIOUS
<1> QED
  BY DEF Init, ConfigInv, HasConfig, Building

(* Starting reads nothing yet. *)
LEMMA StartStep ==
  ASSUME ConfigInv, NEW f \in RawFile \cup {None}, NEW b \in Bind \cup {None, Malformed},
         NEW v \in Interval \cup {None, Malformed}, Start(f, b, v)
  PROVE  ConfigInv'
BY DEF ConfigInv, Start, HasConfig, Building, Nothing

(* Deserializing either refuses the file or yields a configuration. *)
LEMMA ReadFileStep ==
  ASSUME ConfigInv, ReadFile
  PROVE  ConfigInv'
<1>1. CASE Deserializes(raw) /\ stage' = "layered" /\ config' = Parsed(raw)
  <2>1. raw \in RawFile
    BY <1>1 DEF ConfigInv, Deserializes
  <2>2. Parsed(raw) \in Configs
    BY <1>1, <2>1, ParsedConfig
  <2> QED
    BY <1>1, <2>2 DEF ConfigInv, ReadFile, HasConfig, Building, Nothing
<1>2. CASE stage' = "refused" /\ UNCHANGED config
  BY <1>2 DEF ConfigInv, ReadFile, HasConfig, Building, Nothing
<1> QED
  BY <1>1, <1>2 DEF ReadFile

(* Validation grants every tenant its limits before the first is loaded. *)
LEMMA ValidateStep ==
  ASSUME ConfigInv, Validate
  PROVE  ConfigInv'
<1> DEFINE c == ApplyEnv(config)
           g == ClampTenants(c)
<1>1. config \in Configs /\ registered = Nothing /\ stage = "layered"
  BY DEF ConfigInv, Validate, HasConfig, Building
<1>2. c \in Configs
  BY <1>1, AppliedConfig DEF ConfigInv
<1>3. CASE Accepts(c) /\ stage' = "loaded" /\ config' = g /\ next' = config'.tenants
  <2>1. /\ g \in Configs
        /\ \A i \in DOMAIN g.tenants :
             g.tenants[i].name \in Name /\ Granted(g.tenants[i].limits, g.engine)
    BY <1>2, <1>3, ClampedConfig
  <2> HIDE DEF c, g
  <2>2. g.tenants \in Entries /\ Len(g.tenants) \in Nat
    BY <2>1, LenProperties DEF Configs, Entries
  <2>3. Done' = 0
    BY <1>3, <2>2 DEF Done
  <2>4. registered' = registered /\ \A n \in Name : registered[n] = None
    BY <1>1 DEF Nothing, Validate
  <2>5. registered' \in [Name -> Limits \cup {None}]
    BY <1>1, <2>4 DEF Nothing
  <2>6. \A n \in Name : LastOf(g.tenants, 0, n, registered'[n])
    BY <2>4 DEF LastOf
  <2>7. \A i \in 1..Len(next') : next'[i] = g.tenants[Done' + i]
    BY <1>3, <2>3
  <2>8. UNCHANGED <<env, raw>>
    BY DEF Validate
  <2> QED
    BY <1>3, <2>1, <2>2, <2>3, <2>4, <2>5, <2>6, <2>7, <2>8 DEF ConfigInv, HasConfig, Building
<1>4. CASE stage' = "refused" /\ UNCHANGED <<config, next>>
  BY <1>1, <1>4 DEF ConfigInv, Validate, HasConfig, Building, Nothing
<1> QED
  BY <1>3, <1>4 DEF Validate

(* Loading a tenant cannot fail on its name or limits, and registers the
   last entry read so far of each name. *)
LEMMA LoadTenantStep ==
  ASSUME ConfigInv, LoadTenant
  PROVE  ConfigInv'
<1> DEFINE t == Head(next)
           ts == config.tenants
           k == Done
<1>1. /\ stage = "loaded" /\ next # << >> /\ next \in Entries /\ config \in Configs
      /\ k \in 0..Len(ts) /\ registered \in [Name -> Limits \cup {None}]
      /\ \A i \in 1..Len(next) : next[i] = ts[k + i]
      /\ \A n \in Name : LastOf(ts, k, n, registered[n])
      /\ UNCHANGED <<env, raw, config>>
  BY DEF ConfigInv, LoadTenant, HasConfig, Building
<1>2. /\ \A i \in DOMAIN ts : ts[i].name \in Name /\ Granted(ts[i].limits, config.engine)
  BY <1>1 DEF ConfigInv, Building
<1>3. ts \in Entries /\ Len(ts) \in Nat /\ DOMAIN ts = 1..Len(ts)
  BY <1>1, LenProperties DEF Configs, Entries
<1>4. /\ Len(next) \in Nat /\ Len(next) >= 1 /\ t = next[1]
      /\ Tail(next) \in Entries /\ Len(Tail(next)) = Len(next) - 1
      /\ \A i \in 1..Len(Tail(next)) : Tail(next)[i] = next[i + 1]
  BY <1>1, LenProperties, HeadTailProperties, EmptySeq DEF Entries
<1>5. k = Len(ts) - Len(next)
  BY DEF Done
<1>6. k \in Nat /\ k + 1 \in DOMAIN ts /\ k + 1 <= Len(ts)
  BY <1>1, <1>3, <1>4, <1>5
<1>7. t = ts[k + 1]
  BY <1>1, <1>4
<1>8. t \in Entry
  BY <1>3, <1>6, <1>7, ElementOfSeq DEF Entries
<1> HIDE DEF t, k, ts
<1>9. t.name \in Name /\ ValidLimits(t.limits) /\ t.limits \in Limits
  BY <1>2, <1>6, <1>7, <1>8 DEF Granted, Entry
<1>10. TenantId(t.name) /\ SandboxNew(t.limits)
  BY <1>9 DEF TenantId, SandboxNew
<1>11. CASE registered' = Inserted(t) /\ next' = Tail(next) /\ UNCHANGED stage
  <2>1. registered' = [registered EXCEPT ![ts[k + 1].name] = ts[k + 1].limits]
    BY <1>7, <1>11 DEF Inserted
  <2>2. \A n \in Name : LastOf(ts, k + 1, n, registered'[n])
    <3> HIDE DEF LastOf
    <3> QED
      BY <1>1, <1>3, <1>6, <1>7, <1>9, <2>1, InsertIsLast
  <2>3. registered' \in [Name -> Limits \cup {None}]
    BY <1>1, <1>7, <1>9, <2>1
  <2>4. ts' = ts
    BY <1>1 DEF ts
  <2>5. Done' = k + 1
    BY <1>1, <1>3, <1>4, <1>5, <1>11, <2>4 DEF Done, ts
  <2>6. next' \in Entries /\ Done' \in 0..Len(ts)
    BY <1>3, <1>4, <1>6, <1>11, <2>5
  <2>7. \A i \in 1..Len(next') : next'[i] = ts[Done' + i]
    <3> TAKE i \in 1..Len(next')
    <3>1. i \in Nat /\ i + 1 \in 1..Len(next) /\ i \in 1..Len(Tail(next))
      BY <1>4, <1>11
    <3>2. next'[i] = ts[k + (i + 1)]
      BY <1>1, <1>4, <1>11, <3>1
    <3> QED
      BY <1>6, <2>5, <3>1, <3>2
  <2> QED
    BY <1>1, <1>2, <1>11, <2>2, <2>3, <2>4, <2>5, <2>6, <2>7
    DEF ConfigInv, HasConfig, Building, ts
<1>12. CASE stage' = "unavailable" /\ UNCHANGED <<registered, next>>
  <2>1. Done' = Done
    BY <1>1, <1>12 DEF Done
  <2> QED
    BY <1>1, <1>2, <1>12, <2>1 DEF ConfigInv, HasConfig, Building, k, ts
<1> QED
  BY <1>10, <1>11, <1>12 DEF LoadTenant, t

(* Running with every tenant loaded. *)
LEMMA StartBackgroundStep ==
  ASSUME ConfigInv, StartBackground
  PROVE  ConfigInv'
<1>1. /\ stage = "loaded" /\ stage' = "running" /\ next = << >> /\ config \in Configs
      /\ UNCHANGED <<env, raw, config, next, registered>>
  BY DEF ConfigInv, StartBackground, HasConfig
<1>2. Done' = Done
  BY <1>1 DEF Done
<1> QED
  BY <1>1, <1>2 DEF ConfigInv, HasConfig, Building

(* The end of the process forgets everything. *)
LEMMA ExitStep ==
  ASSUME ConfigInv, Exit
  PROVE  ConfigInv'
BY DEF ConfigInv, Exit, HasConfig, Building, Nothing

(* ConfigInv is inductive. *)
LEMMA ConfigStep == ConfigInv /\ [Next]_vars => ConfigInv'
<1> SUFFICES ASSUME ConfigInv, [Next]_vars PROVE ConfigInv'
  OBVIOUS
<1>1. CASE UNCHANGED vars
  BY <1>1 DEF vars, ConfigInv, HasConfig, Building, Done, Nothing
<1> QED
  BY <1>1, StartStep, ReadFileStep, ValidateStep, LoadTenantStep, StartBackgroundStep, ExitStep
  DEF Next

(* The invariant the theorems below follow from. *)
LEMMA ConfigInvariant == Spec => []ConfigInv
BY ConfigInit, ConfigStep, PTL DEF Spec

-----------------------------------------------------------------------------
(* TypeOK: whatever units the file uses, what the process computes from it
   fits usize. *)
THEOREM ConfigTypeCorrect == Spec => []TypeOK
<1>1. ConfigInv => TypeOK
  <2> SUFFICES ASSUME ConfigInv PROVE TypeOK
    OBVIOUS
  <2>1. config # None => config.engine.mem \in Usize /\ config.body \in Usize
    BY DEF ConfigInv, Configs
  <2>2. ASSUME config # None, NEW i \in DOMAIN config.tenants
        PROVE  config.tenants[i].limits \in Limits
    <3>1. config.tenants \in Seq(Entry)
      BY <2>2 DEF ConfigInv, Configs, Entries
    <3>2. config.tenants[i] \in Entry
      BY <3>1, <2>2, ElementOfSeq, LenProperties
    <3> QED
      BY <3>2 DEF Entry
  <2>3. \A n \in Name : registered[n] \in Limits \cup {None}
    BY DEF ConfigInv, Nothing
  <2> QED
    BY <2>1, <2>2, <2>3 DEF ConfigInv, TypeOK
<1> QED
  BY <1>1, ConfigInvariant, PTL

(* AcceptedBuilds: build's own checks never refuse what load accepted. *)
THEOREM ConfigAcceptedBuilds == Spec => []AcceptedBuilds
<1>1. ConfigInv => AcceptedBuilds
  BY DEF ConfigInv, AcceptedBuilds
<1> QED
  BY <1>1, ConfigInvariant, PTL

(* WithinEngine: a registered tenant can run, within the engine's budget. *)
THEOREM ConfigWithinEngine == Spec => []WithinEngine
<1>1. ConfigInv => WithinEngine
  <2> SUFFICES ASSUME ConfigInv, NEW n \in Name, registered[n] # None
               PROVE  Granted(registered[n], config.engine)
    BY DEF WithinEngine, Granted
  <2>1. Building
    BY DEF ConfigInv, Nothing
  <2>2. config \in Configs /\ Done \in 0..Len(config.tenants) /\ LastOf(config.tenants, Done, n, registered[n])
    BY <2>1 DEF ConfigInv, HasConfig, Building
  <2>3. PICK i \in 1..Done : registered[n] = config.tenants[i].limits
    BY <2>2 DEF LastOf
  <2>4. i \in DOMAIN config.tenants
    BY <2>2, <2>3, LenProperties DEF Configs, Entries
  <2> QED
    BY <2>1, <2>3, <2>4 DEF ConfigInv
<1> QED
  BY <1>1, ConfigInvariant, PTL

(* LaterEntryWins: the running tenants are the file's, the last entry of each. *)
THEOREM ConfigLaterEntryWins == Spec => []LaterEntryWins
<1>1. ConfigInv => LaterEntryWins
  <2> DEFINE ts == config.tenants
             at(n) == {i \in DOMAIN ts : ts[i].name = n}
  <2> SUFFICES ASSUME ConfigInv, stage = "running", NEW n \in Name
               PROVE  registered[n] = IF at(n) = {} THEN None ELSE ts[Max(at(n))].limits
    BY DEF LaterEntryWins
  <2>1. config \in Configs /\ next = << >> /\ LastOf(ts, Done, n, registered[n])
    BY DEF ConfigInv, HasConfig, Building
  <2>2. DOMAIN ts = 1..Len(ts) /\ Len(ts) \in Nat
    BY <2>1, LenProperties DEF Configs, Entries
  <2>3. Done = Len(ts)
    BY <2>1, <2>2 DEF Done
  <2> HIDE DEF ts
  <2>4. CASE registered[n] = None /\ \A i \in 1..Done : ts[i].name # n
    BY <2>2, <2>3, <2>4
  <2>5. ASSUME NEW i \in 1..Done, ts[i].name = n, registered[n] = ts[i].limits,
               \A j \in 1..Done : ts[j].name = n => j <= i
        PROVE  registered[n] = IF at(n) = {} THEN None ELSE ts[Max(at(n))].limits
    <3>1. i \in at(n) /\ \A j \in at(n) : i >= j
      BY <2>2, <2>3, <2>5
    <3>2. \A x \in at(n) : x \in Nat
      BY <2>2
    <3> HIDE DEF at
    <3>3. Max(at(n)) = i
      <4>1. \A x \in at(n) : (\A y \in at(n) : x >= y) => x = i
        BY <3>1, <3>2
      <4> QED
        BY <3>1, <4>1 DEF Max
    <3> QED
      BY <2>5, <3>1, <3>3
  <2> QED
    BY <2>1, <2>4, <2>5 DEF LastOf
<1> QED
  BY <1>1, ConfigInvariant, PTL
=============================================================================
