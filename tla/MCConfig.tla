------------------------------ MODULE MCConfig ------------------------------
(***************************************************************************)
(* Instances of Config for TLC: usize has 5 bits and k stands for 4, so    *)
(* that g always overflows, m only from 2 on and k from 8 on.  Engine and  *)
(* tenants are sound ones changed in at most one field; a file has up to   *)
(* two tenants, one name included twice.                                   *)
(***************************************************************************)
EXTENDS Config

Size(n, u) == [digits |-> n, unit |-> u]
Sizes == {Size(0, "b"), Size(3, "b"), Size(40, "b"), Size(None, "k"),
          Size(7, "k"), Size(8, "k"), Size(1, "m"), Size(2, "m"), Size(1, "x")}

Sound == [name |-> "a", source |-> "oci",
          limits |-> [mem |-> Size(7, "k"), instances |-> 2, delta |-> 2,
                      wall |-> 1, quota |-> Size(1, "k"),
                      body |-> Size(0, "b")]]
RawTenant ==
  {Sound}
    \cup {[Sound EXCEPT !.name = n] : n \in {"b", "not a name"}}
    \cup {[Sound EXCEPT !.source = "empty reference"]}
    \cup {[Sound EXCEPT !.limits.mem = s] : s \in Sizes}
    \cup {[Sound EXCEPT !.limits.quota = Size(0, "b")]}
    \cup {[Sound EXCEPT !.limits.body = Size(2, "m")]}
    \cup {[Sound EXCEPT !.limits.instances = n] : n \in {0, 1}}
    \cup {[Sound EXCEPT !.limits.delta = 0], [Sound EXCEPT !.limits.wall = 0]}

Tenants ==
  {<< >>} \cup {<<t>> : t \in RawTenant}
    \cup {<<t, u>> : t \in {[Sound EXCEPT !.limits.instances = 3],
                            [Sound EXCEPT !.name = "b"]}, u \in RawTenant}

SoundEngine == [mem |-> Size(1, "m"), instances |-> 3]
Engines ==
  {SoundEngine}
    \cup {[SoundEngine EXCEPT !.mem = s] : s \in {Size(0, "b"), Size(3, "b"), Size(2, "m")}}
    \cup {[SoundEngine EXCEPT !.instances = n] : n \in {0, 1}}
Files == {[engine |-> e, tenants |-> ts, bind |-> "file", interval |-> 2, body |-> s] :
            e \in Engines, ts \in Tenants, s \in {Size(3, "b"), Size(8, "k")}}
=============================================================================
