----------------------------- MODULE KpiRegistry -----------------------------
(***************************************************************************)
(* KPI definitions and their versions.  A definition gets one open draft   *)
(* at a time; a governance case about the DEFINITION lets any draft of it  *)
(* be published; a retired definition stays as it is.  Writers of one      *)
(* definition exclude each other by an advisory lock, which publication    *)
(* takes only after it has read the draft and had its case confirmed.      *)
(*                                                                         *)
(* A version is its number.  What it says (names, unit, polarity, owner)   *)
(* is left out: a trigger freezes it when the row is inserted.             *)
(***************************************************************************)
EXTENDS Naturals, Sequences

CONSTANTS
    Kpis,                \* identities of kpi_definitions
    Users,
    NoOne,               \* holder of a free lock
    MaxVersions          \* bound on the versions of a definition

ASSUME NoOneAssumption == NoOne \notin Users
ASSUME KpiAssumption == Kpis # {}
ASSUME VersionAssumption == MaxVersions \in Nat \ {0}

VARIABLES
    status,              \* kpi_definitions.status, or "absent"
    versions,            \* kpi_versions by definition, in the order of their numbers
    active,              \* kpi_definitions.active_version_id, as a number; 0 is none
    approved,            \* the definitions some approved case is about
    lock,                \* who holds the lock KpiDefinition:<id>
    user                 \* what each request has read so far

registryVars == <<status, versions, active, approved, lock, user>>

Locked == {"draft", "publish", "retire"}
Request(phase, kpi, version, sees) ==
    [phase |-> phase, kpi |-> kpi, version |-> version, sees |-> sees]
Idle == Request("idle", CHOOSE k \in Kpis : TRUE, 0, 0)

Version(published, supersedes) == [published |-> published, supersedes |-> supersedes]
Draft == Version(FALSE, 0)
IsOpen(k, n) == n \in DOMAIN versions[k] /\ ~versions[k][n].published

RegistryInit ==
    /\ status = [k \in Kpis |-> "absent"]
    /\ versions = [k \in Kpis |-> <<>>]
    /\ active = [k \in Kpis |-> 0]
    /\ approved = {}
    /\ lock = [k \in Kpis |-> NoOne]
    /\ user = [u \in Users |-> Idle]

At(u, phase) == user[u].phase = phase
Becomes(u, request) == user' = [user EXCEPT ![u] = request]

\* Mutated: no advisory lock.
LockFreeAlways(k) == TRUE

\* lockExistingDefinition(): held until the transaction ends.
LockFree(k) == lock[k] = NoOne
Takes(u, k, phase, n) ==
    /\ LockFree(k)
    /\ lock' = [lock EXCEPT ![k] = u]
    /\ Becomes(u, Request(phase, k, n, active[k]))
Unlocked(u) == [k \in Kpis |-> IF lock[k] = u THEN NoOne ELSE lock[k]]
EndTransaction(u) == lock' = Unlocked(u) /\ Becomes(u, Idle)

-----------------------------------------------------------------------------
\* createDraft(): a new definition with its first version, or the next one of
\* an existing definition.  The partial unique index says the same of an open
\* draft as the check.

NewDefinition(k) ==
    /\ status[k] = "absent"
    /\ status' = [status EXCEPT ![k] = "draft"]
    /\ versions' = [versions EXCEPT ![k] = <<Draft>>]

DefineKpi(u, k) ==
    /\ At(u, "idle")
    /\ NewDefinition(k)
    /\ UNCHANGED <<active, approved, lock, user>>

\* Mutated: the latest version is not looked at before another draft is made.
DraftableAlways(k) == TRUE

Draftable(k) == \A n \in DOMAIN versions[k] : ~IsOpen(k, n)

BeginDraft(u, k) ==
    /\ At(u, "idle")
    /\ status[k] \in {"draft", "active"}
    /\ Draftable(k)
    /\ Len(versions[k]) < MaxVersions
    /\ Takes(u, k, "draft", Len(versions[k]) + 1)
    /\ UNCHANGED <<status, versions, active, approved>>

CommitDraft(u) ==
    LET k == user[u].kpi IN
    /\ At(u, "draft")
    /\ Draftable(k) /\ user[u].version = Len(versions[k]) + 1
    /\ versions' = [versions EXCEPT ![k] = Append(@, Draft)]
    /\ EndTransaction(u)
    /\ UNCHANGED <<status, active, approved>>

-----------------------------------------------------------------------------
\* publishVersion(): the draft is read and the case confirmed before the
\* transaction; the status and the draft are read again under the lock.

ReadDraft(u, k, n) ==
    /\ At(u, "idle")
    /\ IsOpen(k, n)
    /\ Becomes(u, Request("approval", k, n, 0))
    /\ UNCHANGED <<status, versions, active, approved, lock>>

AssertApproved(u) ==
    /\ At(u, "approval")
    /\ user[u].kpi \in approved
    /\ Becomes(u, [user[u] EXCEPT !.phase = "confirmed"])
    /\ UNCHANGED <<status, versions, active, approved, lock>>

BeginPublish(u) ==
    LET k == user[u].kpi IN
    /\ At(u, "confirmed")
    /\ status[k] # "retired"
    /\ IsOpen(k, user[u].version)
    /\ Takes(u, k, "publish", user[u].version)
    /\ UNCHANGED <<status, versions, active, approved>>

\* The trigger refuses to stamp published_at a second time.
CommitPublish(u) ==
    LET k == user[u].kpi  n == user[u].version IN
    /\ At(u, "publish")
    /\ IsOpen(k, n)
    /\ versions' = [versions EXCEPT ![k][n] = Version(TRUE, user[u].sees)]
    /\ active' = [active EXCEPT ![k] = n]
    /\ status' = [status EXCEPT ![k] = "active"]
    /\ EndTransaction(u)
    /\ UNCHANGED approved

-----------------------------------------------------------------------------
BeginRetire(u, k) ==
    /\ At(u, "idle")
    /\ status[k] \in {"draft", "active"}
    /\ Takes(u, k, "retire", 0)
    /\ UNCHANGED <<status, versions, active, approved>>

CommitRetire(u) ==
    /\ At(u, "retire")
    /\ status' = [status EXCEPT ![user[u].kpi] = "retired"]
    /\ EndTransaction(u)
    /\ UNCHANGED <<versions, active, approved>>

\* A check fails, the database refuses, or the process ends.
RequestFails(u) ==
    /\ ~At(u, "idle")
    /\ EndTransaction(u)
    /\ UNCHANGED <<status, versions, active, approved>>

\* Governance approves a case whose subject is the definition.
Approve(k) ==
    /\ status[k] # "absent" /\ k \notin approved
    /\ approved' = approved \cup {k}
    /\ UNCHANGED <<status, versions, active, lock, user>>

RegistryStep ==
    \/ \E k \in Kpis : Approve(k)
    \/ \E u \in Users :
          \/ \E k \in Kpis : DefineKpi(u, k) \/ BeginDraft(u, k) \/ BeginRetire(u, k)
          \/ \E k \in Kpis, n \in 1..MaxVersions : ReadDraft(u, k, n)
          \/ CommitDraft(u) \/ AssertApproved(u)
          \/ BeginPublish(u) \/ CommitPublish(u)
          \/ CommitRetire(u) \/ RequestFails(u)

RegistrySpec == RegistryInit /\ [][RegistryStep]_registryVars

-----------------------------------------------------------------------------
(***************************************************************************)
(* PROPERTIES                                                              *)
(***************************************************************************)

RegistryTypeOK ==
    /\ status \in [Kpis -> {"absent", "draft", "active", "retired"}]
    /\ versions \in [Kpis -> Seq([published : BOOLEAN, supersedes : Nat])]
    /\ active \in [Kpis -> Nat]
    /\ approved \subseteq Kpis
    /\ lock \in [Kpis -> Users \cup {NoOne}]
    /\ user \in [Users -> [phase : Locked \cup {"idle", "approval", "confirmed"},
                           kpi : Kpis, version : 0..MaxVersions, sees : 0..MaxVersions]]

\* However drafts and publications interleave, each published version of a
\* definition supersedes the one before it, nothing is published past an open
\* draft, and the active version is the last one published.
VersionsAreLinear ==
    \A k \in Kpis :
        /\ active[k] <= Len(versions[k])
        /\ \A n \in DOMAIN versions[k] :
              IF n <= active[k]
              THEN versions[k][n].published /\ versions[k][n].supersedes = n - 1
              ELSE ~versions[k][n].published /\ n = Len(versions[k])

\* A publication or a draft that began before a retirement does not reach the
\* definition after it: a retired KPI keeps its status and its versions.
RetiredIsFinal ==
    [][\A k \in Kpis : status[k] = "retired" =>
          status'[k] = "retired" /\ versions'[k] = versions[k]]_registryVars

=============================================================================
