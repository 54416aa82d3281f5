------------------------------- MODULE Circuits -------------------------------
(***************************************************************************)
(* The hierarchical composition of S matrices (circuits/assembly.py): the  *)
(* structure of a manifest, the tables of its components, the matrix of    *)
(* the network.  validate_netlist (workflows/netlists.py) asks the same of *)
(* a netlist and is applied to the same connections here.                  *)
(*                                                                         *)
(* The entries of the tables are 0 and 1: a component sends the light that *)
(* enters a port to one port or absorbs it.  The arithmetic of compose is  *)
(* then exact, and what it computes can be compared with following the     *)
(* light.  The instances and components of the manifest are constants; its *)
(* connections and external ports are whatever somebody wrote.             *)
(***************************************************************************)
EXTENDS Naturals, Sequences, FiniteSets, SequencesExt

CONSTANTS
  Instances, \* the instances, in the order of the manifest
  PartOf,    \* PartOf[i]: the component of an instance
  Ports,     \* Ports[c]: the ports of a component, in order
  ModeOf,    \* ModeOf[c][p]: the mode of a port
  Strangers, \* endpoints that are no port of an instance
  Tables,    \* Tables[c]: what may be in the table of a component
  MaxNamed   \* bound: endpoints named in a manifest

PortsOf(i) == Ports[PartOf[i]]
Endpoints == UNION {{<<i, p>> : p \in ToSet(PortsOf(i))} : i \in ToSet(Instances)}
Names == Endpoints \cup Strangers
Parts == {PartOf[i] : i \in ToSet(Instances)}

\* Instances have names, components have ports, and no port twice: of a manifest
\* without that nothing else is looked at.  Entries are 0 or 1.
ASSUME CircuitAssumption ==
  /\ Instances \in Seq(ToSet(Instances)) /\ Instances # <<>> /\ IsInjective(Instances)
  /\ \A c \in Parts :
       /\ Ports[c] \in Seq(ToSet(Ports[c])) /\ Ports[c] # <<>> /\ IsInjective(Ports[c])
       /\ \A rows \in Tables[c] : \A r \in ToSet(rows) : r[4] \in {0, 1}
  /\ MaxNamed \in Nat

VARIABLES
  stage,    \* how far validate_manifest and compose have come
  manifest, \* the connections and the external ports
  tables,   \* the tables that were loaded
  composed  \* composed[w][out][in]: the matrix of the network

circuitVars == <<stage, manifest, tables, composed>>

Nothing == [connections |-> <<>>, external |-> <<>>]
CircuitInit == stage = "start" /\ manifest = Nothing /\ tables = <<>> /\ composed = <<>>

-----------------------------------------------------------------------------
(* validate_structure.                                                     *)

NoneUsed == [used |-> {}, valid |-> TRUE]
Use(acc, e) == [used |-> acc.used \cup {e}, valid |-> acc.valid /\ e \notin acc.used]

\* A connection with an endpoint that is not known is an error and uses nothing.
Connect(acc, c) ==
  IF {c[1], c[2]} \subseteq Endpoints
    THEN LET after == Use(Use(acc, c[1]), c[2])
         IN [after EXCEPT !.valid =
              @ /\ ModeOf[PartOf[c[1][1]]][c[1][2]] = ModeOf[PartOf[c[2][1]]][c[2][2]]
                /\ c[1] # c[2]]
    ELSE [acc EXCEPT !.valid = FALSE]

\* Mutant: an endpoint that is connected may be an external port as well.
ExposeUsed(acc, e) ==
  IF e \in Endpoints THEN [acc EXCEPT !.used = @ \cup {e}] ELSE [acc EXCEPT !.valid = FALSE]

Expose(acc, e) == IF e \in Endpoints THEN Use(acc, e) ELSE [acc EXCEPT !.valid = FALSE]

StructureValid(m) ==
  LET all == FoldLeft(Expose, FoldLeft(Connect, NoneUsed, m.connections), m.external)
  IN all.valid /\ m.external # <<>> /\ Endpoints \subseteq all.used

\* validate_netlist: it knows instances, not their ports.
Occupy(acc, e) ==
  [Use(acc, e) EXCEPT !.valid = @ /\ \E i \in ToSet(Instances) : e[1] = i]

Join(acc, c) ==
  [Occupy(Occupy(acc, c[1]), c[2]) EXCEPT !.valid = @ /\ c[1] # c[2]]

NetlistValid(m) ==
  FoldLeft(Occupy, FoldLeft(Join, NoneUsed, m.connections), m.external).valid

-----------------------------------------------------------------------------
(* load_component_data: the rows of a table, <<wavelength, out, in, value>>. *)

Grid(rows) == {r[1] : r \in ToSet(rows)}
Entry(rows, w, out, in) ==
  (CHOOSE r \in ToSet(rows) : r[1] = w /\ r[2] = out /\ r[3] = in)[4]

\* With entries 0 and 1, no singular value above 1: no two in a row or column.
Passive(c, rows) ==
  \A w \in Grid(rows) : \A p, q, r \in ToSet(Ports[c]) : q # r =>
    /\ ~(Entry(rows, w, p, q) = 1 /\ Entry(rows, w, p, r) = 1)
    /\ ~(Entry(rows, w, q, p) = 1 /\ Entry(rows, w, r, p) = 1)

TableValid(c, rows) ==
  LET ports == ToSet(Ports[c])
  IN /\ rows # <<>>
     /\ \A r \in ToSet(rows) : r[2] \in ports /\ r[3] \in ports
     /\ \A j, k \in DOMAIN rows : j # k => SubSeq(rows[j], 1, 3) # SubSeq(rows[k], 1, 3)
     /\ \A w \in Grid(rows) : \A p, q \in ports :
          \E r \in ToSet(rows) : <<r[1], r[2], r[3]>> = <<w, p, q>>
     /\ Passive(c, rows)

\* load_all_component_data: one grid.
DataValid(t) ==
  /\ \A c \in DOMAIN t : TableValid(c, t[c])
  /\ \A c, d \in DOMAIN t : Grid(t[c]) = Grid(t[d])

-----------------------------------------------------------------------------
(* compose: matrices over the ports of all instances, one instance after   *)
(* the other.                                                              *)

Global == FoldLeft(LAMBDA s, i : s \o [k \in DOMAIN PortsOf(i) |-> <<i, PortsOf(i)[k]>>],
                   <<>>, Instances)
Index(e) == CHOOSE k \in DOMAIN Global : Global[k] = e
Offset(i) == Index(<<i, PortsOf(i)[1]>>) - 1

\* system_s: the matrix of a component in the slice of each of its instances.
System(t, w) ==
  [a \in DOMAIN Global |-> [b \in DOMAIN Global |->
    IF \E i \in ToSet(Instances) : {a, b} \subseteq Offset(i) + 1 .. Offset(i) + Len(PortsOf(i))
      THEN LET i == Global[a][1]
           IN Entry(t[PartOf[i]], w, PortsOf(i)[a - Offset(i)], PortsOf(i)[b - Offset(i)])
      ELSE 0]]

Internal(m) == FoldLeft(LAMBDA s, c : s \o c, <<>>, m.connections)

\* Mutant: a connection leads from its left to its right endpoint only.
ConnectedOneWay(m, a, b) ==
  IF \E k \in DOMAIN m.connections : a = 2 * k /\ b = 2 * k - 1 THEN 1 ELSE 0

\* connection_matrix, by the positions of the endpoints in Internal.
Connected(m, a, b) ==
  IF \E k \in DOMAIN m.connections : {a, b} = {2 * k - 1, 2 * k} /\ a # b THEN 1 ELSE 0

\* numpy's solve of (1 - C S_ii) x = C S_ie for the column of an external port:
\* x is what enters the internal ports.  As C S_ii has at most one 1 in a row or
\* column it is nilpotent, and x is unique, or it contains a cycle, and then
\* 1 - C S_ii is singular and x may be 0 or 1 along the cycle.
Solutions(m, s, in) ==
  LET inner == Internal(m)
      n == Len(inner)
      leaving(x) == [b \in 1 .. n |->
        s[Index(inner[b])][Index(m.external[in])]
        + SumFunction([d \in 1 .. n |-> s[Index(inner[b])][Index(inner[d])] * x[d]])]
  IN {x \in [1 .. n -> {0, 1}] : \A a \in 1 .. n :
        x[a] = SumFunction([b \in 1 .. n |-> Connected(m, a, b) * leaving(x)[b]])}

Singular(m, s) == \E in \in DOMAIN m.external : Cardinality(Solutions(m, s, in)) # 1

\* external_s = see + sei @ internal_response.
External(m, s) ==
  LET inner == Internal(m)
      n == Len(inner)
      response == [in \in DOMAIN m.external |-> CHOOSE x \in Solutions(m, s, in) : TRUE]
  IN [out \in DOMAIN m.external |-> [in \in DOMAIN m.external |->
       s[Index(m.external[out])][Index(m.external[in])]
       + SumFunction([b \in 1 .. n |->
           s[Index(m.external[out])][Index(inner[b])] * response[in][b]])]]

-----------------------------------------------------------------------------
(* Steps.                                                                  *)

\* validate_manifest: the structure of the manifest that is there.
Validate ==
  /\ stage = "start"
  /\ \E n \in 0 .. MaxNamed \div 2 : \E k \in 0 .. MaxNamed - 2 * n :
       \E c \in [1 .. n -> Names \X Names], e \in [1 .. k -> Names] :
         manifest' = [connections |-> c, external |-> e]
  /\ stage' = IF StructureValid(manifest') THEN "structured" ELSE "refused"
  /\ UNCHANGED <<tables, composed>>

\* Then the tables that are there.
LoadAll ==
  /\ stage = "structured"
  /\ tables' \in [Parts -> UNION {Tables[c] : c \in Parts}]
  /\ \A c \in Parts : tables'[c] \in Tables[c]
  /\ stage' = IF DataValid(tables') THEN "loaded" ELSE "refused"
  /\ UNCHANGED <<manifest, composed>>

Compose ==
  /\ stage = "loaded"
  /\ LET grid == Grid(tables[PartOf[Instances[1]]])
     IN IF \E w \in grid : Singular(manifest, System(tables, w))
          THEN stage' = "singular" /\ UNCHANGED composed
          ELSE /\ composed' = [w \in grid |-> External(manifest, System(tables, w))]
               /\ stage' = "composed"
  /\ UNCHANGED <<manifest, tables>>

CircuitNext == Validate \/ LoadAll \/ Compose
CircuitSpec == CircuitInit /\ [][CircuitNext]_circuitVars

-----------------------------------------------------------------------------
(* Properties.                                                             *)

\* Following the light: the endpoints it leaves an instance from and those it
\* enters next.
Leaving(w, e) ==
  {<<e[1], q>> : q \in {p \in ToSet(PortsOf(e[1])) :
                          Entry(tables[PartOf[e[1]]], w, p, e[2]) = 1}}
Across(e) ==
  {x \in Endpoints : \E c \in ToSet(manifest.connections) : <<e, x>> \in {c, <<c[2], c[1]>>}}
Follow(w, start, steps) ==
  LET f[k \in Nat] ==
        IF k = 0 THEN start
        ELSE UNION {Across(o) : o \in UNION {Leaving(w, e) : e \in f[k - 1]}}
  IN f[steps]
Ways == 0 .. Cardinality(Endpoints)

Leads(w, in, out) ==
  \E k \in Ways : \E e \in Follow(w, {manifest.external[in]}, k) :
    manifest.external[out] \in Leaving(w, e)
Rings(w) ==
  \E e \in Endpoints : \E k \in Ways \ {0} : e \in Follow(w, {e}, k)

\* The matrix that compose computes with slices, index lists and a linear system
\* has a 1 exactly where light that enters one external port leaves another (or
\* the same), at every wavelength; it is refused exactly if light that is inside
\* may stay there for ever.
ComposedIsLightPath ==
  /\ stage = "composed" =>
       \A w \in DOMAIN composed :
         /\ ~Rings(w)
         /\ \A out, in \in DOMAIN manifest.external :
              composed[w][out][in] = IF Leads(w, in, out) THEN 1 ELSE 0
  /\ stage = "singular" => \E w \in Grid(tables[PartOf[Instances[1]]]) : Rings(w)

\* The two validators agree: the manifests that validate_structure accepts are
\* those that are valid as netlists, name known ports only, connect equal modes,
\* and leave no port open.
ValidatorsAgree ==
  stage # "start" =>
    LET named == ToSet(Internal(manifest)) \cup ToSet(manifest.external)
    IN StructureValid(manifest) <=>
         /\ NetlistValid(manifest)
         /\ named = Endpoints /\ manifest.external # <<>>
         /\ \A c \in ToSet(manifest.connections) :
              ModeOf[PartOf[c[1][1]]][c[1][2]] = ModeOf[PartOf[c[2][1]]][c[2][2]]
=============================================================================
