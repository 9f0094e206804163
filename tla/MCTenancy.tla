------------------------------ MODULE MCTenancy ------------------------------
(* An instance of Tenancy for TLC: requests of two workers that overlap,   *)
(* and requests one at a time of a landlord who ends tenancies by moving   *)
(* tenants out, by terminating leases, or by both with the leases listed.  *)
EXTENDS Tenancy, TLC

CONSTANTS w1, w2, p1, p2, u1, u2, t1, t2, t3

MCWorkers == {w1, w2}
MCPropertyOf == (u1 :> p1) @@ (u2 :> p2)

Race ==
    [uses |-> {"create_unit", "create_tenant", "terminate_lease", "move_out",
               "update_unit_status", "update_tenant", "delete_unit", "delete_property"},
     overlap |-> TRUE, repeats |-> TRUE, halts |-> TRUE, maxLeases |-> 2]

ByTenant ==
    [uses |-> {"create_unit", "create_tenant", "move_out", "list_leases",
               "delete_unit", "delete_property"},
     overlap |-> FALSE, repeats |-> FALSE, halts |-> FALSE, maxLeases |-> 4]

ByLease ==
    [uses |-> {"create_unit", "create_tenant", "create_lease", "terminate_lease",
               "update_tenant", "delete_unit", "delete_property"},
     overlap |-> FALSE, repeats |-> FALSE, halts |-> FALSE, maxLeases |-> 4]

Listing ==
    [uses |-> {"create_unit", "create_tenant", "terminate_lease", "move_out",
               "list_leases", "update_unit_status", "update_tenant", "delete_property"},
     overlap |-> FALSE, repeats |-> TRUE, halts |-> TRUE, maxLeases |-> 3]

MCWorkloads == {Race, ByTenant, ByLease, Listing}

Symmetry ==
    Permutations(Workers) \cup Permutations(Tenants) \cup {[x \in {p1, p2, u1, u2} |->
        CASE x = p1 -> p2 [] x = p2 -> p1 [] x = u1 -> u2 [] x = u2 -> u1]}
=============================================================================
