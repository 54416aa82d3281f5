--------------------------- MODULE AdapterRegistry ---------------------------
(***************************************************************************)
(* The registry of adapters (adapters/registry.py): the built-in ones, and *)
(* those of third-party providers that a project allows by name.  A batch  *)
(* is registered in one go; whoever embeds the package catches the         *)
(* exceptions of a refused batch and goes on with the registry he has.     *)
(***************************************************************************)
EXTENDS Naturals, Sequences

CONSTANTS
  Adapters,    \* names of adapters
  BuiltIn,     \* the registrations of default_adapter_registry
  EntryPoints, \* what is installed: [name, works, supplied] with the registrations
               \* that the provider returns, unless it fails or returns no tuple
  Batches,     \* what the embedding application registers
  Allowances,  \* the sets of names that a project allows
  MaxCalls     \* bound

\* A registration; `fits` stands for its SPI version, the schema versions of its
\* contracts and a factory that can be called.
Registration == [adapter : Adapters, factory : BOOLEAN, fits : BOOLEAN]

ASSUME EntryPointsAssumption ==
  EntryPoints \subseteq [name : Nat, works : BOOLEAN, supplied : Seq(Registration)]

VARIABLES
  descriptors, \* descriptors[a]: the registration an adapter has, if any
  factories,   \* the adapters with a factory
  providers,   \* the entry points that were loaded
  calls,       \* bound counter
  accepted     \* history: the batches that were registered, built-in ones first

registryVars == <<descriptors, factories, providers, calls, accepted>>

NoRegistration == [adapter |-> "none", factory |-> FALSE, fits |-> FALSE]
Empty == [descriptors |-> [a \in Adapters |-> NoRegistration], factories |-> {}]
Here == [descriptors |-> descriptors, factories |-> factories]

-----------------------------------------------------------------------------
\* A batch is a family of registrations, a sequence for one: their order says no more
\* than which error a refused batch is told.
IsBatch(batch) == \A k \in DOMAIN batch : batch[k] \in Registration

ASSUME BatchesAssumption == \A batch \in Batches : IsBatch(batch)

Fits(registry, batch, k) ==
  /\ batch[k].fits /\ registry.descriptors[batch[k].adapter] = NoRegistration
  /\ \A j \in DOMAIN batch \ {k} : batch[j].adapter # batch[k].adapter

Registrable(registry, batch) == \A k \in DOMAIN batch : Fits(registry, batch, k)

Put(registry, batch, fit) ==
  LET of(a) == {k \in fit : batch[k].adapter = a}
  IN [descriptors |-> [a \in Adapters |->
        IF of(a) # {} THEN batch[CHOOSE k \in of(a) : TRUE] ELSE registry.descriptors[a]],
      factories |-> registry.factories
                      \cup {batch[k].adapter : k \in {j \in fit : batch[j].factory}}]

\* Mutant: what is refused of a batch is left out, the others are registered.
RegisteredInPart(registry, batch) ==
  Put(registry, batch, {k \in DOMAIN batch : Fits(registry, batch, k)})

\* register_many: the registry afterwards.
Registered(registry, batch) ==
  IF Registrable(registry, batch) THEN Put(registry, batch, DOMAIN batch) ELSE registry

\* The package does not start with built-in registrations that do not fit together.
ASSUME BuiltInAssumption == IsBatch(BuiltIn) /\ Registrable(Empty, BuiltIn)

\* default_adapter_registry, one registration after the other.
Default == Registered(Empty, BuiltIn)

RegistryInit ==
  /\ descriptors = Default.descriptors /\ factories = Default.factories
  /\ providers = {} /\ calls = 0
  /\ accepted = <<BuiltIn>>

Leave(registry, batch) ==
  /\ descriptors' = registry.descriptors
  /\ factories' = registry.factories
  /\ accepted' = IF Registrable(Here, batch) THEN Append(accepted, batch) ELSE accepted

\* register and register_many by the embedding application.
Register(batch) ==
  /\ calls < MaxCalls /\ calls' = calls + 1
  /\ Leave(Registered(Here, batch), batch)
  /\ UNCHANGED providers

\* _provider_registrations: descriptors only, and at least one.
Supplied(e) ==
  /\ e.works /\ e.supplied # <<>>
  /\ \A k \in DOMAIN e.supplied : ~e.supplied[k].factory

\* The entry points of the allowed names: each name is there, and once, and what all
\* of them supply is one batch.
Chosen(allowed) == {e \in EntryPoints : e.name \in allowed}
Supplies(chosen) ==
  [x \in UNION {{e} \X DOMAIN e.supplied : e \in chosen} |-> x[1].supplied[x[2]]]

LoadEntryPoints(allowed) ==
  /\ calls < MaxCalls /\ calls' = calls + 1
  /\ LET chosen == Chosen(allowed)
         batch == Supplies(chosen)
     IN IF /\ allowed # {} /\ {e.name : e \in chosen} = allowed
           /\ \A d, e \in chosen : d # e => d.name # e.name
           /\ \A e \in chosen : Supplied(e)
          THEN /\ Leave(Registered(Here, batch), batch)
               /\ providers' = IF Registrable(Here, batch)
                                 THEN providers \cup allowed ELSE providers
          ELSE UNCHANGED <<descriptors, factories, providers, accepted>>

\* create: an adapter with a factory whose product has the registered descriptor.
Creatable(a) == descriptors[a] # NoRegistration /\ a \in factories

RegistryNext ==
  \/ \E batch \in Batches : Register(batch)
  \/ \E allowed \in Allowances : LoadEntryPoints(allowed)

RegistrySpec == RegistryInit /\ [][RegistryNext]_registryVars

-----------------------------------------------------------------------------
(* Property.                                                               *)

\* Whatever is refused on the way, the registry is that of the batches that were
\* registered, each of them whole: an adapter has the descriptor of the one
\* registration of its name, can be created only if that one had a factory, and
\* never because of a provider; and a provider is reported as loaded only if all
\* it supplies is registered.
BatchIsWhole ==
  /\ \A a \in Adapters :
       /\ descriptors[a] # NoRegistration =>
            \E n \in DOMAIN accepted : \E k \in DOMAIN accepted[n] :
              accepted[n][k] = descriptors[a] /\ accepted[n][k].adapter = a
       /\ Creatable(a) => descriptors[a].factory
  /\ \A m, n \in DOMAIN accepted :
       \A j \in DOMAIN accepted[m], k \in DOMAIN accepted[n] :
         accepted[m][j].adapter = accepted[n][k].adapter => m = n /\ j = k
  /\ \A n \in DOMAIN accepted : \A k \in DOMAIN accepted[n] :
       descriptors[accepted[n][k].adapter] = accepted[n][k]
  /\ \A e \in EntryPoints : e.name \in providers =>
       \A k \in DOMAIN e.supplied :
         descriptors[e.supplied[k].adapter] = e.supplied[k]
         /\ ~Creatable(e.supplied[k].adapter)
=============================================================================
