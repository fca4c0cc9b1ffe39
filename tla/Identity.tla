------------------------------ MODULE Identity ------------------------------
(***************************************************************************)
(* Who calls: the role and the tenant that the middleware puts into the    *)
(* context of a request (internal/auth), and what the operations of the    *)
(* orchestrator derive from them (tenant.go).                              *)
(***************************************************************************)
EXTENDS Naturals

CONSTANTS
    Tenants,    \* ids of the tenants table
    NoTenant    \* a null tenant_id

Roles == {"viewer", "operator", "admin"}

Identities == [role : Roles, tenant : Tenants \cup {NoTenant}]

rank == [viewer |-> 1, operator |-> 2, admin |-> 3]

\* RequireRole: the gate in front of each group of routes.
AtLeast(id, min) == rank[id.role] >= rank[min]

\* The identity of every request while authentication is off.
DevIdentity == [role |-> "admin", tenant |-> NoTenant]

\* The tenant of a row that the caller creates.
tenantForCreate(id) == id.tenant

\* An admin is not scoped, nor is a caller without a tenant.
scopeTenant(id) == id.role # "admin" /\ id.tenant # NoTenant

\* A row without a tenant belongs to no tenant.
tenantVisible(t, id) == t # NoTenant /\ t = id.tenant

\* The rows of a table that a List operation returns to the caller.
Visible(rows, id) ==
    {r \in rows : scopeTenant(id) => tenantVisible(r.tenant, id)}

=============================================================================
