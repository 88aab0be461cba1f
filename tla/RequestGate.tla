----------------------------- MODULE RequestGate -----------------------------
(***************************************************************************)
(* What a gRPC call passes before its handler: the budget of the method    *)
(* (cmd/ani-model-service/grpc_tls.go), the policy of the client's         *)
(* certificate and the principal its metadata assert (rpc_policy.go), and  *)
(* RequireTenant (internal/identity/context.go).  The four have no state;  *)
(* they are operators on the call.                                         *)
(***************************************************************************)
EXTENDS Naturals, Sequences

CONSTANTS
    Tenants, \* tenants
    NoTenant \* the empty tenant_id of a request, or no tenant

ASSUME RequestGateAssumption == NoTenant \notin Tenants

Clients == {"inference", "modeldev", "governance"}

\* The methods, one for each row of the policy that differs from the others.
Methods == {"GetModel", "GetTrainedArtifactRegistration", "ResolveFinetuningFacts",
            "CompleteTrainedArtifact", "SearchExternalModels", "Health"}

\* ModelServicePolicy
Allowed == [inference  |-> {"GetModel"},
            modeldev   |-> {"ResolveFinetuningFacts", "GetTrainedArtifactRegistration",
                            "CompleteTrainedArtifact"},
            governance |-> {"GetModel", "SearchExternalModels", "CompleteTrainedArtifact"}]

\* The client is the DNS name in the certificate; "nobody" has a certificate with
\* another number of names, or none.  Metadata values come as lists.
GateCall ==
    [client   : Clients \cup {"other", "nobody"},
     method   : Methods,
     deadline : BOOLEAN,                    \* the caller set a deadline
     tenant   : UNION {[1 .. n -> Tenants] : n \in 0 .. 2},
     alias    : UNION {[1 .. n -> Tenants] : n \in 0 .. 1},
     actor    : Clients \cup {"absent"},    \* the prefix of the actor
     asked    : Tenants \cup {NoTenant}]    \* tenant_id in the request

\* modelMethodBudget; reading a registration has its object verified here.
NeedsDeadline(method) == method \in {"CompleteTrainedArtifact", "GetTrainedArtifactRegistration"}

\* singleMetadataValue and singleConsistentMetadataValue
Single(values) == IF Len(values) = 1 THEN values[1] ELSE NoTenant
Consistent(a, b) ==
    IF Len(a) > 1 \/ Len(b) > 1 THEN NoTenant
    ELSE IF a = <<>> THEN Single(b)
    ELSE IF b = <<>> THEN Single(a)
    ELSE IF a = b THEN Single(a) ELSE NoTenant

\* The tenant of the principal; inference calls have a fixed actor.
Asserted(c) ==
    IF c.client = "inference" THEN Consistent(c.tenant, c.alias)
    ELSE IF c.actor = c.client THEN Single(c.tenant) ELSE NoTenant

\* RequireTenant: a request that names a tenant names the principal's.
OtherTenant(c) == c.asked \notin {NoTenant, Asserted(c)}

\* The verdict of the chain in its order, which begins with the TLS handshake: an
\* error, or that the handler runs.
GateVerdict(c) ==
    IF c.client = "nobody" THEN "unauthenticated"
    ELSE IF NeedsDeadline(c.method) /\ ~c.deadline THEN "deadlineRequired"
    ELSE IF c.method = "Health" THEN "health"
    ELSE IF c.client \notin Clients THEN "denied"
    ELSE IF c.method \notin Allowed[c.client] THEN "denied"
    ELSE IF Asserted(c) = NoTenant THEN "unauthenticated"
    ELSE IF OtherTenant(c) THEN "otherTenant"
    ELSE "run"
=============================================================================
