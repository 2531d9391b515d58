--------------------------- MODULE MCPruneUnused ----------------------------
\* Two types with a method x, one of them with a method y as well, and a
\* named interface that requires x or both.  A third type has no methods.
EXTENDS PruneUnused, TLC

CONSTANTS f, mt, mu, T, U, W, I, v, x, y

NoneOr(S) == {{}, S}

MCPrograms ==
  {[initial |-> [w \in {v} |-> initial],
    uses |-> (Main :> {f}) @@ (f :> calls) @@ (mt :> called) @@ (mu :> {Main}),
    names |-> (f :> {v}) @@ [g \in Funcs |-> {}],
    shows |-> (Main :> shown) @@ (mt :> within) @@ (f :> created) @@ (mu :> {T}),
    inside |-> (T :> field) @@ (U :> held) @@ (W :> {}) @@ (I :> result),
    method |-> (T :> (x :> mt @@ y :> f)) @@ (U :> (x :> mu @@ y :> NoMethod))
                @@ [other \in {I, W} |-> [n \in Names |-> NoMethod]],
    requires |-> (I :> required)] :
      initial \in NoneOr({mu}), calls \in SUBSET {mu, mt}, called \in NoneOr({f}),
      shown \in SUBSET {T, U, I}, within \in SUBSET {U, I}, created \in NoneOr({U}),
      field \in NoneOr({I}), result \in NoneOr({U}),
      held \in {{T}, {W}}, required \in {{x}, {x, y}}}
=============================================================================
