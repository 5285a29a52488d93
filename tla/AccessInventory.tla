--------------------------- MODULE AccessInventory ---------------------------
(***************************************************************************)
(* The Access resources of a Cloudflare account (identity providers,       *)
(* reusable policies and applications) as scripts/cloudflare-access.mjs    *)
(* reads them, and the plan it makes from one reading: which desired       *)
(* resource is which existing one, what has to be created or updated, and  *)
(* when it refuses to touch anything.                                      *)
(*                                                                         *)
(* A resource is abstracted to what planning and comparing tell apart:     *)
(* "body" stands for the fields that cloudflare/access.json configures,    *)
(* "extra" for the other writable fields of an application, "uses" for     *)
(* its identity providers and policies.                                    *)
(***************************************************************************)
EXTENDS Integers, Sequences, FiniteSets

CONSTANTS
  Id,          \* resource ids that exist or may be given to new resources
  IdKind,      \* their kinds
  Key,         \* the desired resources of cloudflare/access.json
  KindOf,      \* their kinds
  Fits,        \* the desired resource an id has the name or fingerprint of
  Needs,       \* the providers and policies a desired application attaches
  Detachable,  \* policies with an approved legacy fingerprint
  Blocks,      \* bodies of a managed application an id's own paths overlap
  Extra,       \* values of the other writable fields
  noKey        \* fits nothing that is desired

Kinds == {"identity_provider", "reusable_policy", "application"}

\* validateApplication: one managed provider, at least one managed policy.
ValidApplication(k) ==
  LET Need(kind) == {m \in Needs[k] : KindOf[m] = kind} IN
  /\ Needs[k] = Need("identity_provider") \cup Need("reusable_policy")
  /\ Cardinality(Need("identity_provider")) = 1 /\ Need("reusable_policy") # {}

\* validateConfig, as far as planning depends on it.
ValidConfig ==
  /\ KindOf \in [Key -> Kinds] /\ Needs \in [Key -> SUBSET Key]
  /\ \E k \in Key : KindOf[k] = "identity_provider"
  /\ \A k \in Key :
       IF KindOf[k] = "application" THEN ValidApplication(k) ELSE Needs[k] = {}

ASSUME InventoryAssumption ==
  /\ IdKind \in [Id -> Kinds] /\ ValidConfig
  /\ noKey \notin Key /\ Fits \in [Id -> Key \cup {noKey}]
  /\ \A i \in Id : Fits[i] # noKey => IdKind[i] = KindOf[Fits[i]]
  /\ Detachable \subseteq Id
  /\ Blocks \in [Id -> SUBSET {"old", "want", "other"}]
  /\ Extra # {}

DefaultExtra == CHOOSE e \in Extra : TRUE

Resource == [body : {"absent", "old", "want", "other"}, extra : Extra,
             uses : SUBSET Id]

\* What the script reads: the organization's guard and every resource.
Reading == [mfa : BOOLEAN, res : [Id -> Resource]]

Absent == [body |-> "absent", extra |-> DefaultExtra, uses |-> {}]

Present(s) == {i \in Id : s.res[i] # Absent}
OfKind(s, kind) == {i \in Present(s) : IdKind[i] = kind}

Providers(s, i) == {j \in s.res[i].uses : IdKind[j] = "identity_provider"}
Policies(s, i)  == {j \in s.res[i].uses : IdKind[j] = "reusable_policy"}

\* resolveAdoption: the existing resources with the desired name or fingerprint.
Found(s, k) == {i \in Present(s) : Fits[i] = k}

IdOf(s, k) == CHOOSE i \in Found(s, k) : TRUE

Unmanaged(s) == {i \in OfKind(s, "application") : Fits[i] = noKey}

-----------------------------------------------------------------------------
(* When buildPlan refuses. *)

\* enforceOrganizationGuard: the organization asks everybody for a second factor.
GuardLifted(s) == ~s.mfa

\* resolveAdoption: two resources answer to one desired name.
Ambiguous(s) == \E k \in Key : \E i, j \in Found(s, k) : i # j

\* A found application that takes every provider, or uses what is not listed.
Unsafe(s) ==
  \E i \in OfKind(s, "application") : Fits[i] # noKey /\
     (Providers(s, i) = {} \/ ~(s.res[i].uses \subseteq Present(s)))

\* A managed policy or provider serves an unmanaged application, or would: one
\* without chosen providers takes whatever provider there is.
Shared(s) ==
  \E x \in Unmanaged(s) :
    \/ Providers(s, x) = {}
    \/ \E j \in s.res[x].uses : Fits[j] # noKey

Overlaps(s, body) == \E x \in Unmanaged(s) : body \in Blocks[x]

\* An attached policy that is neither desired nor an approved legacy one.
Unapproved(s) ==
  \E i \in OfKind(s, "application") : Fits[i] # noKey /\
    \E j \in Policies(s, i) :
      Fits[j] \notin Needs[Fits[i]] /\ j \notin Detachable

Refuses(s) ==
  \/ GuardLifted(s) \/ Ambiguous(s) \/ Unsafe(s) \/ Shared(s)
  \/ Overlaps(s, "want") \/ Unapproved(s)

-----------------------------------------------------------------------------
(* What buildPlan would do. *)

\* A needed provider or policy that has no id yet.
Unresolved(s, k) == \E n \in Needs[k] : Found(s, n) = {}

\* Mutation of Payload: what an existing application attaches is kept.
PayloadKeepingLinks(s, k) ==
  IF Found(s, k) = {} \/ KindOf[k] # "application"
  THEN [body |-> "want", extra |-> DefaultExtra,
        uses |-> UNION {Found(s, m) : m \in Needs[k]}]
  ELSE [s.res[IdOf(s, k)] EXCEPT !.body = "want"]

\* identityProviderPayload, reusablePolicyPayload, applicationPayload: the
\* configured fields over what an existing application has.
Payload(s, k) ==
  [body |-> "want",
   extra |-> IF Found(s, k) = {} THEN DefaultExtra ELSE s.res[IdOf(s, k)].extra,
   uses |-> UNION {Found(s, n) : n \in Needs[k]}]

PlanFor(s, k) ==
  IF Found(s, k) = {} THEN "create"
  ELSE IF ~Unresolved(s, k) /\ s.res[IdOf(s, k)] = Payload(s, k)
  THEN "current" ELSE "update"

InPlace(s) == \A k \in Key : PlanFor(s, k) = "current"

\* applicationDependencyDigests: what a found application uses, as it is.
Dependencies(s, k) ==
  IF KindOf[k] # "application" \/ Found(s, k) = {} THEN {}
  ELSE {[id |-> j, was |-> s.res[j]] : j \in s.res[IdOf(s, k)].uses}
=============================================================================
