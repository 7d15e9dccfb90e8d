------------------------------ MODULE MCTenants ------------------------------
\* Two tenants with a tier that has a quota of its own and one that has none,
\* a request that wants the slug of another and one the domain, a switch and a
\* key.
EXTENDS Tenants

MCBodies ==
  { [slug |-> "a", tier |-> "pro",      domain |-> ""],
    [slug |-> "a", tier |-> "business", domain |-> "d"],
    [slug |-> "b", tier |-> "business", domain |-> "d"] }

=============================================================================
