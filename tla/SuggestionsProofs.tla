-------------------------- MODULE SuggestionsProofs --------------------------
(***************************************************************************)
(* A suggestion becomes one record, whatever number of callers accept it;  *)
(* a KPI's versions are linear and a retired KPI is final, for any number  *)
(* of KPIs, of users and of accepted suggestions.                          *)
(***************************************************************************)
EXTENDS Suggestions, TLAPS

Holding == {"check", "create", "align", "settle", "release"}
Empty == {"check", "create", "release"}

\* A caller past the claim holds the one open claim of its suggestion; the
\* suggestion has no record until that caller has made it.
Holds(a) ==
    /\ claim[Of(a)] = "open"
    /\ acceptor[a].phase \in Empty => records[Of(a)] = {}
    /\ acceptor[a].phase \in {"align", "settle"} =>
          acceptor[a].made \in Records /\ records[Of(a)] = {acceptor[a].made}

AcceptorType == [phase : Holding \cup {"idle", "context", "claim", "wait"},
                 s : Suggested, ack : BOOLEAN, dup : BOOLEAN,
                 made : Records \cup {NoRecord}, fails : BOOLEAN]

ClaimInv ==
    /\ claim \in [Suggested -> {"none", "open", "settled"}]
    /\ subject \in [Suggested -> Records \cup {NoRecord}]
    /\ records \in [Suggested -> SUBSET Records]
    /\ answers \in [Suggested -> SUBSET Records]
    /\ acceptor \in [Acceptors -> AcceptorType]
    /\ \A a \in Acceptors :
          /\ acceptor[a].phase \in Holding => Holds(a)
          /\ acceptor[a].phase \notin {"align", "settle"} => acceptor[a].made = NoRecord
    /\ \A a, b \in Acceptors :
          acceptor[a].phase \in Holding /\ acceptor[b].phase \in Holding /\ Of(a) = Of(b)
              => a = b
    /\ \A s \in Suggested : claim[s] = "none" => records[s] = {}
    /\ OneRecordPerSuggestion


LEMMA IdleCall == NoCall \in AcceptorType /\ NoCall.phase = "idle" /\ NoCall.made = NoRecord
<1> QED BY SuggestedAssumption DEF NoCall, Call, AcceptorType

\* A step that changes where one call is, and nothing else: the call does not
\* become a holder by it, and does not change what it holds.
LEMMA MoveKeeps ==
    ASSUME ClaimInv, NEW a \in Acceptors, NEW c \in AcceptorType,
           acceptor' = [acceptor EXCEPT ![a] = c],
           UNCHANGED <<claim, subject, records, answers>>,
           c.phase \in Holding =>
               /\ acceptor[a].phase \in Holding
               /\ c.s = acceptor[a].s /\ c.made = acceptor[a].made
               /\ c.phase \in Empty <=> acceptor[a].phase \in Empty,
           c.phase \notin {"align", "settle"} => c.made = NoRecord
    PROVE  ClaimInv'
<1>1. acceptor' \in [Acceptors -> AcceptorType]
    BY DEF ClaimInv
<1>2. \A b \in Acceptors : acceptor'[b] = IF b = a THEN c ELSE acceptor[b]
    BY DEF ClaimInv
<1>3. ASSUME NEW b \in Acceptors, acceptor'[b].phase \in Holding
      PROVE  Holds(b)' /\ acceptor[b].phase \in Holding /\ Of(b)' = Of(b)
    BY <1>2, <1>3 DEF ClaimInv, Holds, Of, Holding, Empty
<1> QED BY <1>1, <1>3 DEF ClaimInv, OneRecordPerSuggestion

LEMMA AcceptKeeps ==
    ASSUME ClaimInv, NEW a \in Acceptors, NEW s \in Suggested, NEW ack \in BOOLEAN, Accept(a, s, ack)
    PROVE  ClaimInv'
<1>1. CASE claim[s] = "settled"
    BY <1>1, SMTT(60)
       DEF Accept, Calls, Of, Holds, Holding, Empty, AcceptorType,
           ClaimInv, Records, OneRecordPerSuggestion
<1>2. CASE claim[s] # "settled"
    <2> DEFINE call == Call("context", s, ack, FALSE, NoRecord, FALSE)
    <2>1. call \in AcceptorType /\ call.phase = "context" /\ call.made = NoRecord
        BY DEF Call, AcceptorType
    <2>2. acceptor' = [acceptor EXCEPT ![a] = call]
        BY <1>2 DEF Accept
    <2>3. UNCHANGED <<claim, subject, records, answers>>
        BY <1>2 DEF Accept
    <2> HIDE DEF call
    <2> QED BY <2>1, <2>2, <2>3, SMTT(60)
       DEF Calls, Of, Holds, Holding, Empty, AcceptorType,
           ClaimInv, Records, OneRecordPerSuggestion
<1> QED BY <1>1, <1>2

LEMMA BuildContextKeeps ==
    ASSUME ClaimInv, NEW a \in Acceptors, BuildContext(a)
    PROVE  ClaimInv'
<1> DEFINE dup == ~IsKpi(Of(a)) /\ Duplicated(Of(a))
           c == [acceptor[a] EXCEPT !.phase = "claim", !.dup = dup]
<1>1. dup \in BOOLEAN
    OBVIOUS
<1>2. acceptor' = [acceptor EXCEPT ![a] = c]
    BY Zenon DEF BuildContext
<1>3. UNCHANGED <<claim, subject, records, answers>>
    BY DEF BuildContext
<1> HIDE DEF dup
<1>4. c \in AcceptorType /\ c.phase = "claim" /\ c.made = NoRecord
    BY <1>1 DEF AcceptorType, ClaimInv, BuildContext, Calls
<1> HIDE DEF c
<1> QED BY <1>2, <1>3, <1>4, MoveKeeps DEF Holding

LEMMA ClaimKeeps ==
    ASSUME ClaimInv, NEW a \in Acceptors, Claim(a)
    PROVE  ClaimInv'
<1>1. CASE Claimable(Of(a))
    <2> DEFINE c == [acceptor[a] EXCEPT !.phase = "check"]
    <2>1. /\ claim[Of(a)] = "none" /\ records[Of(a)] = {}
          /\ claim' = [claim EXCEPT ![Of(a)] = "open"]
          /\ acceptor' = [acceptor EXCEPT ![a] = c]
          /\ UNCHANGED <<subject, records, answers>>
        BY <1>1 DEF Claim, Claimable, Goes, ClaimInv, Of, AcceptorType
    <2>2. c \in AcceptorType /\ c.phase = "check" /\ c.s = Of(a) /\ c.made = acceptor[a].made
        BY DEF AcceptorType, ClaimInv, Holding, Of
    <2>3. c.made = NoRecord
        BY <2>2 DEF Claim, Calls, ClaimInv
    <2> HIDE DEF c
    <2>4. \A b \in Acceptors : acceptor'[b] = IF b = a THEN c ELSE acceptor[b]
        BY <2>1 DEF ClaimInv
    <2>5. ASSUME NEW b \in Acceptors, b # a, acceptor'[b].phase \in Holding
          PROVE  Holds(b) /\ Holds(b)' /\ Of(b)' = Of(b) /\ Of(b) # Of(a)
        BY <2>1, <2>4, <2>5 DEF ClaimInv, Holds, Of, AcceptorType
    <2>6. Holds(a)' /\ Of(a)' = Of(a)
        BY <2>1, <2>2, <2>3, <2>4 DEF ClaimInv, Holds, Of, AcceptorType, Empty
    <2>7. acceptor' \in [Acceptors -> AcceptorType]
        BY <2>1, <2>2 DEF ClaimInv
    <2>8. claim' \in [Suggested -> {"none", "open", "settled"}]
          /\ \A s \in Suggested : /\ claim'[s] = "none" => claim[s] = "none"
                                /\ claim'[s] = "settled" => claim[s] = "settled"
        BY <2>1 DEF ClaimInv
    <2>9. \A b \in Acceptors :
             /\ acceptor'[b].phase \in Holding => Holds(b)'
             /\ acceptor'[b].phase \notin {"align", "settle"} => acceptor'[b].made = NoRecord
        BY <2>2, <2>3, <2>4, <2>5, <2>6 DEF ClaimInv
    <2>10. ASSUME NEW b \in Acceptors, NEW d \in Acceptors, Of(b)' = Of(d)',
                  acceptor'[b].phase \in Holding, acceptor'[d].phase \in Holding
           PROVE  b = d
        BY <2>4, <2>5, <2>6, <2>10 DEF ClaimInv
    <2> QED BY <2>1, <2>7, <2>8, <2>9, <2>10 DEF ClaimInv, OneRecordPerSuggestion
<1>2. CASE ~Claimable(Of(a))
    BY <1>2, SMTT(60)
       DEF Claim, Goes, Calls, Of, Holds, Holding, Empty, AcceptorType,
           ClaimInv, Records, OneRecordPerSuggestion
<1> QED BY <1>1, <1>2

LEMMA CheckDuplicatesKeeps ==
    ASSUME ClaimInv, NEW a \in Acceptors, CheckDuplicates(a)
    PROVE  ClaimInv'
<1> QED BY IdleCall, RecordAssumption, SMTT(60)
       DEF CheckDuplicates, Goes, Calls, Of, Holds, Holding, Empty, AcceptorType,
           ClaimInv, Records, OneRecordPerSuggestion

LEMMA CreateKpiKeeps ==
    ASSUME ClaimInv, NEW a \in Acceptors, NEW k \in Kpis, CreateKpi(a, k)
    PROVE  ClaimInv'
<1> QED BY IdleCall, RecordAssumption, SMTT(60)
       DEF CreateKpi, Makes, Calls, Of, Holds, Holding, Empty, AcceptorType,
           ClaimInv, Records, OneRecordPerSuggestion

LEMMA CreateOkrKeeps ==
    ASSUME ClaimInv, NEW a \in Acceptors, NEW o \in Okrs, CreateOkr(a, o)
    PROVE  ClaimInv'
<1> QED BY IdleCall, RecordAssumption, SMTT(60)
       DEF CreateOkr, Makes, Calls, Of, Holds, Holding, Empty, AcceptorType,
           ClaimInv, Records, OneRecordPerSuggestion

LEMMA AlignKeeps ==
    ASSUME ClaimInv, NEW a \in Acceptors, Align(a)
    PROVE  ClaimInv'
<1> QED BY IdleCall, RecordAssumption, SMTT(60)
       DEF Align, Goes, Calls, Of, Holds, Holding, Empty, AcceptorType,
           ClaimInv, Records, OneRecordPerSuggestion

LEMMA CreationFailsKeeps ==
    ASSUME ClaimInv, NEW a \in Acceptors, CreationFails(a)
    PROVE  ClaimInv'
<1> DEFINE phase == AfterFailure(acceptor[a].made)
           c == [acceptor[a] EXCEPT !.phase = phase, !.fails = TRUE]
<1>1. /\ acceptor' = [acceptor EXCEPT ![a] = c]
      /\ UNCHANGED <<claim, subject, records, answers>>
    BY DEF CreationFails
<1>2. \/ /\ acceptor[a].phase \in {"check", "create"}
         /\ acceptor[a].made = NoRecord /\ phase = "release"
      \/ /\ acceptor[a].phase = "align"
         /\ acceptor[a].made # NoRecord /\ phase = "settle"
    BY RecordAssumption DEF CreationFails, AfterFailure, Calls, ClaimInv, Holds, Holding, Empty
<1> HIDE DEF phase
<1>3. c \in AcceptorType /\ c.phase = phase /\ c.s = acceptor[a].s /\ c.made = acceptor[a].made
    BY <1>2 DEF AcceptorType, ClaimInv, Holding
<1> HIDE DEF c
<1> QED BY <1>1, <1>2, <1>3, MoveKeeps DEF Holding, Empty

LEMMA SettleClaimKeeps ==
    ASSUME ClaimInv, NEW a \in Acceptors, SettleClaim(a)
    PROVE  ClaimInv'
<1> DEFINE r == acceptor[a].made
<1>1. /\ r \in Records /\ records[Of(a)] = {r} /\ Of(a) \in Suggested
      /\ acceptor[a].phase = "settle"
    BY
       DEF SettleClaim, Calls, Of, Holds, Holding, Empty, AcceptorType,
           ClaimInv, Records, OneRecordPerSuggestion
<1>2. /\ claim' = [claim EXCEPT ![Of(a)] = "settled"]
      /\ subject' = [subject EXCEPT ![Of(a)] = r]
      /\ acceptor' = [acceptor EXCEPT ![a] = NoCall]
      /\ records' = records
      /\ answers' = answers \/ answers' = [answers EXCEPT ![Of(a)] = @ \cup {r}]
    BY DEF SettleClaim, Answered, Answer, Hangs
<1> HIDE DEF r
<1>3. OneRecordPerSuggestion'
    BY <1>1, <1>2, SMTT(60) DEF ClaimInv, OneRecordPerSuggestion
<1>4. /\ claim' \in [Suggested -> {"none", "open", "settled"}]
      /\ subject' \in [Suggested -> Records \cup {NoRecord}]
      /\ records' \in [Suggested -> SUBSET Records]
      /\ answers' \in [Suggested -> SUBSET Records]
      /\ \A s \in Suggested : claim'[s] = "none" => records'[s] = {}
    BY <1>1, <1>2, SMTT(60) DEF ClaimInv
<1>5. /\ acceptor' \in [Acceptors -> AcceptorType]
      /\ \A b \in Acceptors : acceptor'[b] = IF b = a THEN NoCall ELSE acceptor[b]
    BY <1>2, IdleCall DEF ClaimInv
<1>6. ASSUME NEW b \in Acceptors, acceptor'[b].phase \in Holding
      PROVE  b # a /\ acceptor[b].phase \in Holding /\ Of(b)' = Of(b) /\ Of(b) # Of(a)
    BY <1>1, <1>5, <1>6, IdleCall DEF ClaimInv, Of, Holding
<1>7. ASSUME NEW b \in Acceptors, acceptor'[b].phase \in Holding PROVE Holds(b)'
    BY <1>2, <1>5, <1>6, <1>7 DEF ClaimInv, Holds, Of, AcceptorType
<1>8. ASSUME NEW b \in Acceptors, acceptor'[b].phase \notin {"align", "settle"}
      PROVE  acceptor'[b].made = NoRecord
    BY <1>5, <1>8, IdleCall DEF ClaimInv
<1> QED BY <1>3, <1>4, <1>5, <1>6, <1>7, <1>8 DEF ClaimInv

LEMMA SettleFailsKeeps ==
    ASSUME ClaimInv, NEW a \in Acceptors, SettleFails(a)
    PROVE  ClaimInv'
<1> QED BY IdleCall, RecordAssumption, SMTT(60)
       DEF SettleFails, Answered, Answer, Hangs, Calls, Of, Holds, Holding, Empty, AcceptorType,
           ClaimInv, Records, OneRecordPerSuggestion

LEMMA ReleaseClaimKeeps ==
    ASSUME ClaimInv, NEW a \in Acceptors, ReleaseClaim(a)
    PROVE  ClaimInv'
<1> QED BY IdleCall, RecordAssumption, SMTT(60)
       DEF ReleaseClaim, Hangs, Calls, Of, Holds, Holding, Empty, AcceptorType,
           ClaimInv, Records, OneRecordPerSuggestion

LEMMA AwaitWinnerKeeps ==
    ASSUME ClaimInv, NEW a \in Acceptors, AwaitWinner(a)
    PROVE  ClaimInv'
<1> QED BY IdleCall, RecordAssumption, SMTT(60)
       DEF AwaitWinner, Answer, Hangs, Calls, Of, Holds, Holding, Empty, AcceptorType,
           ClaimInv, Records, OneRecordPerSuggestion

LEMMA CallEndsKeeps ==
    ASSUME ClaimInv, NEW a \in Acceptors, CallEnds(a)
    PROVE  ClaimInv'
<1> QED BY IdleCall, RecordAssumption, SMTT(60)
       DEF CallEnds, Hangs, Calls, Of, Holds, Holding, Empty, AcceptorType,
           ClaimInv, Records, OneRecordPerSuggestion

LEMMA InitClaims == Init => ClaimInv
<1> SUFFICES ASSUME Init PROVE ClaimInv
    OBVIOUS
<1>1. /\ claim = [s \in Suggested |-> "none"]
      /\ subject = [s \in Suggested |-> NoRecord]
      /\ records = [s \in Suggested |-> {}]
      /\ answers = [s \in Suggested |-> {}]
      /\ acceptor = [a \in Acceptors |-> NoCall]
    BY DEF Init
<1>2. \A a \in Acceptors : acceptor[a].phase \notin Holding
    BY <1>1, IdleCall DEF Holding
<1> QED BY <1>1, <1>2, IdleCall DEF ClaimInv, OneRecordPerSuggestion

LEMMA ClaimsStayHeld == ClaimInv /\ [Next]_vars => ClaimInv'
<1> SUFFICES ASSUME ClaimInv, [Next]_vars PROVE ClaimInv'
    OBVIOUS
<1>1. ASSUME UNCHANGED suggestionVars PROVE ClaimInv'
    BY <1>1 DEF suggestionVars, ClaimInv, Holds, Of, OneRecordPerSuggestion
<1>2. ASSUME NEW a \in Acceptors, AcceptStep(a) PROVE ClaimInv'
    BY <1>2, AcceptKeeps, BuildContextKeeps, ClaimKeeps, CheckDuplicatesKeeps, CreateKpiKeeps,
       CreateOkrKeeps, AlignKeeps, CreationFailsKeeps, SettleClaimKeeps, SettleFailsKeeps,
       ReleaseClaimKeeps, AwaitWinnerKeeps, CallEndsKeeps DEF AcceptStep
<1> QED BY <1>1, <1>2 DEF Next, vars

\* Accepting a suggestion is idempotent, for any number of suggestions, callers,
\* KPIs and OKRs: at most one record is made for each, whatever fails, and every
\* answer names it.
THEOREM OneRecordEach == Spec => []OneRecordPerSuggestion
<1>1. ClaimInv => OneRecordPerSuggestion
    BY DEF ClaimInv
<1> QED BY <1>1, InitClaims, ClaimsStayHeld, PTL DEF Spec

-----------------------------------------------------------------------------
VersionType == [published : BOOLEAN, supersedes : Nat]

\* Whoever is in a transaction holds the lock of its KPI, which was not retired
\* when it took the lock and whose active version it has read since.
HoldsLock(u) ==
    /\ lock[user[u].kpi] = u
    /\ user[u].phase \in {"draft", "publish"} => status[user[u].kpi] \notin {"absent", "retired"}
    /\ user[u].phase = "publish" => user[u].sees = active[user[u].kpi]

RegistryInv ==
    /\ versions \in [Kpis -> Seq(VersionType)]
    /\ active \in [Kpis -> Nat]
    /\ DOMAIN status = Kpis
    /\ DOMAIN lock = Kpis
    /\ DOMAIN user = Users
    /\ \A u \in Users : user[u].kpi \in Kpis /\ user[u].version \in Nat
    /\ \A u \in Users : user[u].phase \in Locked => HoldsLock(u)
    /\ \A k \in Kpis : status[k] = "absent" => versions[k] = <<>> /\ active[k] = 0
    /\ VersionsAreLinear

\* A draft joins the versions of a KPI that has no open one.
LEMMA DraftKeepsLinear ==
    ASSUME RegistryInv, NEW k \in Kpis, Draftable(k),
           versions' = [versions EXCEPT ![k] = Append(@, Draft)], active' = active
    PROVE  VersionsAreLinear' /\ versions' \in [Kpis -> Seq(VersionType)]
<1> DEFINE vs == versions[k]
           ws == Append(vs, Draft)
<1>1. vs \in Seq(VersionType) /\ Draft \in VersionType /\ active[k] \in Nat
    BY DEF RegistryInv, VersionType, Draft, Version
<1>2. /\ ws \in Seq(VersionType) /\ Len(ws) = Len(vs) + 1 /\ Len(vs) \in Nat
      /\ DOMAIN ws = 1..Len(vs) + 1 /\ DOMAIN vs = 1..Len(vs)
      /\ \A n \in 1..Len(vs) : ws[n] = vs[n]
      /\ ws[Len(vs) + 1] = Draft
    BY <1>1
<1>3. \A n \in DOMAIN vs : vs[n].published
    BY DEF Draftable, IsOpen
<1>4. active[k] <= Len(vs) /\ \A n \in DOMAIN vs : n <= active[k] /\ vs[n].supersedes = n - 1
    BY <1>3 DEF RegistryInv, VersionsAreLinear
<1>5. ~Draft.published
    BY DEF Draft, Version
<1>6. \A j \in Kpis : versions'[j] = IF j = k THEN ws ELSE versions[j]
    BY DEF RegistryInv
<1>7. versions' \in [Kpis -> Seq(VersionType)]
    BY <1>2 DEF RegistryInv
<1> HIDE DEF vs, ws
<1>8. \A n \in DOMAIN ws :
         IF n <= active[k] THEN ws[n].published /\ ws[n].supersedes = n - 1
         ELSE ~ws[n].published /\ n = Len(ws)
    <2> TAKE n \in DOMAIN ws
    <2>1. CASE n \in DOMAIN vs
        BY <1>2, <1>3, <1>4, <2>1
    <2>2. CASE n = Len(vs) + 1
        <3>1. ~(n <= active[k]) /\ n = Len(ws) /\ ws[n] = Draft
            BY <1>1, <1>2, <1>4, <2>2
        <3>2. ~ws[n].published
            BY <1>5, <3>1, Zenon
        <3> QED BY <3>1, <3>2
    <2> QED BY <1>2, <2>1, <2>2
<1>9. active[k] <= Len(ws)
    BY <1>1, <1>2, <1>4
<1> QED BY <1>6, <1>7, <1>8, <1>9 DEF RegistryInv, VersionsAreLinear

LEMMA NewDefinitionKeeps ==
    ASSUME RegistryInv, NEW k \in Kpis, NewDefinition(k), UNCHANGED <<active, lock, user>>
    PROVE  RegistryInv'
<1> DEFINE ws == <<Draft>>
<1>1. versions[k] = <<>> /\ active[k] = 0
    BY DEF NewDefinition, RegistryInv
<1>2. /\ Draft \in VersionType /\ ~Draft.published
      /\ ws \in Seq(VersionType) /\ Len(ws) = 1 /\ DOMAIN ws = {1}
      /\ ws[1] = Draft
    BY DEF Draft, Version, VersionType
<1>3. \A j \in Kpis : versions'[j] = IF j = k THEN ws ELSE versions[j]
    BY DEF NewDefinition, RegistryInv
<1> HIDE DEF ws
<1>4. \A j \in Kpis : status'[j] = IF j = k THEN "draft" ELSE status[j]
    BY DEF NewDefinition, RegistryInv
<1>5. ASSUME NEW j \in Kpis, NEW n \in DOMAIN versions'[j]
      PROVE  IF n <= active'[j]
             THEN versions'[j][n].published /\ versions'[j][n].supersedes = n - 1
             ELSE ~versions'[j][n].published /\ n = Len(versions'[j])
    <2>1. CASE j # k
        BY <1>3, <1>5, <2>1 DEF RegistryInv, VersionsAreLinear
    <2>2. CASE j = k
        <3>1. n = 1 /\ ~(n <= active'[j]) /\ n = Len(versions'[j]) /\ versions'[j][n] = Draft
            <4>1. versions'[j] = ws /\ active'[j] = 0
                BY <1>1, <1>3, <2>2
            <4>2. n = 1
                BY <1>2, <1>5, <4>1
            <4> QED BY <1>2, <4>1, <4>2
        <3>2. ~versions'[j][n].published
            BY <1>2, <3>1, Zenon
        <3> QED BY <3>1, <3>2
    <2> QED BY <2>1, <2>2
<1>6. ASSUME NEW j \in Kpis PROVE active'[j] <= Len(versions'[j])
    <2>1. CASE j = k
        BY <1>1, <1>2, <1>3, <2>1
    <2>2. CASE j # k
        BY <1>3, <2>2 DEF RegistryInv, VersionsAreLinear
    <2> QED BY <2>1, <2>2
<1>7. VersionsAreLinear'
    BY <1>5, <1>6 DEF VersionsAreLinear
<1>8. versions' \in [Kpis -> Seq(VersionType)] /\ DOMAIN status' = Kpis
    BY <1>2, <1>3 DEF NewDefinition, RegistryInv
<1> QED BY <1>3, <1>4, <1>7, <1>8 DEF RegistryInv, HoldsLock

\* A step of one user that changes neither versions nor active, and takes or
\* keeps a lock only as HoldsLock asks.
LEMMA ReadsKeep ==
    ASSUME RegistryInv, NEW u \in Users, NEW r,
           r.kpi \in Kpis, r.version \in Nat,
           user' = [user EXCEPT ![u] = r],
           UNCHANGED <<status, versions, active>>,
           \/ r.phase \notin Locked /\ lock' = lock
           \/ r.phase \notin Locked /\ lock' = Unlocked(u)
           \/ /\ LockFree(r.kpi) /\ lock' = [lock EXCEPT ![r.kpi] = u]
              /\ r.phase \in {"draft", "publish"} => status[r.kpi] \notin {"absent", "retired"}
              /\ r.sees = active[r.kpi]
    PROVE  RegistryInv'
<1>1. \A v \in Users : user'[v] = IF v = u THEN r ELSE user[v]
    BY DEF RegistryInv
<1>2. ASSUME NEW v \in Users, v # u, user'[v].phase \in Locked PROVE HoldsLock(v)'
    <2>1. HoldsLock(v) /\ user'[v] = user[v] /\ user[v].kpi \in Kpis
        BY <1>1, <1>2 DEF RegistryInv
    <2>2. lock'[user[v].kpi] = v
        <3>1. CASE lock' = lock
            BY <2>1, <3>1 DEF HoldsLock
        <3>2. CASE lock' = Unlocked(u)
            BY <2>1, <3>2, <1>2 DEF HoldsLock, Unlocked
        <3>3. CASE LockFree(r.kpi) /\ lock' = [lock EXCEPT ![r.kpi] = u]
            <4>1. lock[user[v].kpi] # NoOne
                BY <2>1, NoOneAssumption DEF HoldsLock
            <4> QED BY <2>1, <3>3, <4>1 DEF HoldsLock, LockFree
        <3> QED BY <3>1, <3>2, <3>3
    <2> QED BY <2>1, <2>2 DEF HoldsLock
<1>3. ASSUME user'[u].phase \in Locked PROVE HoldsLock(u)'
    BY <1>1, <1>3 DEF HoldsLock, RegistryInv
<1>4. DOMAIN user' = Users /\ DOMAIN lock' = Kpis
    BY DEF RegistryInv, Unlocked
<1> QED BY <1>1, <1>2, <1>3, <1>4 DEF RegistryInv, VersionsAreLinear

LEMMA IdleRequest == Idle.phase = "idle" /\ Idle.kpi \in Kpis /\ Idle.version \in Nat
<1> QED BY KpiAssumption DEF Idle, Request

\* The commit of a transaction changes the KPI whose lock it holds and no other.
LEMMA CommitKeeps ==
    ASSUME RegistryInv, NEW u \in Users, NEW k \in Kpis,
           k = user[u].kpi, user[u].phase \in Locked, EndTransaction(u),
           \A j \in Kpis : j # k => /\ status'[j] = status[j] /\ versions'[j] = versions[j]
                                    /\ active'[j] = active[j],
           status'[k] # "absent", DOMAIN status' = Kpis,
           versions' \in [Kpis -> Seq(VersionType)], active' \in [Kpis -> Nat],
           VersionsAreLinear'
    PROVE  RegistryInv'
<1>1. \A v \in Users : user'[v] = IF v = u THEN Idle ELSE user[v]
    BY DEF EndTransaction, Becomes, RegistryInv
<1>2. lock[k] = u
    BY DEF RegistryInv, HoldsLock
<1>3. ASSUME NEW v \in Users, user'[v].phase \in Locked PROVE HoldsLock(v)'
    <2>1. v # u /\ user'[v] = user[v] /\ HoldsLock(v)
        BY <1>1, <1>3, IdleRequest DEF Locked, RegistryInv
    <2>2. user[v].kpi \in Kpis /\ user[v].kpi # k
        BY <1>2, <2>1 DEF HoldsLock, RegistryInv
    <2>3. lock'[user[v].kpi] = v
        BY <2>1, <2>2 DEF EndTransaction, Unlocked, HoldsLock
    <2> QED BY <2>1, <2>2, <2>3 DEF HoldsLock
<1>4. DOMAIN user' = Users /\ DOMAIN lock' = Kpis
    BY DEF EndTransaction, Unlocked, Becomes, RegistryInv
<1> QED BY <1>1, <1>3, <1>4, IdleRequest DEF RegistryInv

LEMMA CommitDraftKeeps ==
    ASSUME RegistryInv, NEW u \in Users, CommitDraft(u)
    PROVE  RegistryInv'
<1> DEFINE k == user[u].kpi
<1>1. k \in Kpis /\ user[u].phase \in Locked /\ status[k] # "absent"
    BY DEF CommitDraft, At, RegistryInv, HoldsLock, Locked
<1>2. /\ Draftable(k) /\ EndTransaction(u) /\ UNCHANGED <<status, active>>
      /\ versions' = [versions EXCEPT ![k] = Append(@, Draft)]
    BY DEF CommitDraft
<1>3. VersionsAreLinear' /\ versions' \in [Kpis -> Seq(VersionType)]
    BY <1>1, <1>2, DraftKeepsLinear
<1>4. \A j \in Kpis : j # k => versions'[j] = versions[j]
    BY <1>2 DEF RegistryInv
<1> HIDE DEF k
<1>5. k = user[u].kpi
    BY DEF k
<1> QED BY <1>1, <1>2, <1>3, <1>4, <1>5, CommitKeeps DEF RegistryInv

\* The lock's holder has read the version it supersedes as it still is; its own
\* is the open one, and the one above it.
LEMMA CommitPublishKeeps ==
    ASSUME RegistryInv, NEW u \in Users, CommitPublish(u)
    PROVE  RegistryInv'
<1> DEFINE k == user[u].kpi
           n == user[u].version
           vs == versions[k]
           stamped == Version(TRUE, active[k])
           ws == [vs EXCEPT ![n] = stamped]
<1>1. k \in Kpis /\ user[u].phase \in Locked /\ user[u].sees = active[k] /\ n \in Nat
    BY DEF CommitPublish, At, RegistryInv, HoldsLock, Locked
<1>2. /\ IsOpen(k, n) /\ EndTransaction(u)
      /\ versions' = [versions EXCEPT ![k] = ws]
      /\ active' = [active EXCEPT ![k] = n]
      /\ status' = [status EXCEPT ![k] = "active"]
    BY <1>1 DEF CommitPublish, RegistryInv
<1>3. /\ vs \in Seq(VersionType) /\ DOMAIN vs = 1..Len(vs) /\ Len(vs) \in Nat
      /\ active[k] \in Nat
    BY <1>1 DEF RegistryInv
<1>4. /\ active[k] <= Len(vs)
      /\ \A m \in DOMAIN vs : IF m <= active[k]
                              THEN vs[m].published /\ vs[m].supersedes = m - 1
                              ELSE ~vs[m].published /\ m = Len(vs)
    BY <1>1 DEF RegistryInv, VersionsAreLinear
<1>5. n \in DOMAIN vs /\ ~vs[n].published
    BY <1>2 DEF IsOpen
<1>6. n = Len(vs) /\ active[k] = n - 1
    <2>1. ~(n <= active[k]) /\ n = Len(vs)
        BY <1>4, <1>5
    <2> HIDE DEF k, n, vs
    <2>2. ASSUME active[k] < n - 1 PROVE FALSE
        <3> DEFINE m == n - 1
        <3>1. n \in Nat /\ active[k] \in Nat
            BY <1>1, <1>3
        <3>2. m \in 1..n /\ ~(m <= active[k]) /\ m # n
            BY <3>1, <2>2
        <3>3. m \in DOMAIN vs /\ ~(m <= active[k]) /\ m # Len(vs)
            BY <1>3, <2>1, <3>2
        <3> HIDE DEF m
        <3> QED BY <1>4, <3>3
    <2> QED BY <1>3, <1>5, <2>1, <2>2
<1>7. stamped \in VersionType /\ stamped.published /\ stamped.supersedes = n - 1
    BY <1>3, <1>6 DEF Version, VersionType
<1> HIDE DEF stamped
<1>8. /\ ws \in Seq(VersionType) /\ DOMAIN ws = DOMAIN vs /\ Len(ws) = Len(vs)
      /\ ws[n] = stamped
      /\ \A m \in DOMAIN vs : m # n => ws[m] = vs[m]
    BY <1>3, <1>5, <1>7
<1> HIDE DEF k, n, vs, ws
<1>9. ASSUME NEW m \in DOMAIN ws
      PROVE  m <= n /\ ws[m].published /\ ws[m].supersedes = m - 1
    <2>1. CASE m = n
        BY <1>3, <1>5, <1>7, <1>8, <2>1
    <2>2. CASE m # n
        BY <1>3, <1>4, <1>5, <1>6, <1>8, <1>9, <2>2
    <2> QED BY <2>1, <2>2
<1>10. \A j \in Kpis : /\ versions'[j] = IF j = k THEN ws ELSE versions[j]
                       /\ active'[j] = IF j = k THEN n ELSE active[j]
                       /\ status'[j] = IF j = k THEN "active" ELSE status[j]
    BY <1>2 DEF RegistryInv
<1>11. /\ versions' \in [Kpis -> Seq(VersionType)] /\ active' \in [Kpis -> Nat]
       /\ DOMAIN status' = Kpis
    BY <1>1, <1>2, <1>8 DEF RegistryInv
<1>12. VersionsAreLinear'
    <2> SUFFICES ASSUME NEW j \in Kpis
                 PROVE  /\ active'[j] <= Len(versions'[j])
                        /\ \A m \in DOMAIN versions'[j] :
                              IF m <= active'[j]
                              THEN versions'[j][m].published /\ versions'[j][m].supersedes = m - 1
                              ELSE ~versions'[j][m].published /\ m = Len(versions'[j])
        BY DEF VersionsAreLinear
    <2>1. CASE j = k
        BY <1>3, <1>6, <1>8, <1>9, <1>10, <2>1
    <2>2. CASE j # k
        BY <1>10, <2>2 DEF RegistryInv, VersionsAreLinear
    <2> QED BY <2>1, <2>2
<1>13. k = user[u].kpi
    BY DEF k
<1> QED BY <1>1, <1>2, <1>10, <1>11, <1>12, <1>13, CommitKeeps

LEMMA CommitRetireKeeps ==
    ASSUME RegistryInv, NEW u \in Users, CommitRetire(u)
    PROVE  RegistryInv'
<1>1. user[u].kpi \in Kpis /\ user[u].phase \in Locked
    BY DEF CommitRetire, At, RegistryInv, Locked
<1>2. /\ EndTransaction(u) /\ UNCHANGED <<versions, active>>
      /\ status' = [status EXCEPT ![user[u].kpi] = "retired"]
    BY DEF CommitRetire
<1>3. VersionsAreLinear'
    BY <1>2 DEF RegistryInv, VersionsAreLinear
<1> QED BY <1>1, <1>2, <1>3, CommitKeeps DEF RegistryInv

LEMMA UserStepKeeps ==
    ASSUME RegistryInv, RegistryStep
    PROVE  RegistryInv'
<1>1. ASSUME NEW k \in Kpis, Approve(k) PROVE RegistryInv'
    BY <1>1 DEF Approve, RegistryInv, HoldsLock, VersionsAreLinear
<1>2. ASSUME NEW u \in Users, NEW k \in Kpis, DefineKpi(u, k) PROVE RegistryInv'
    BY <1>2, NewDefinitionKeeps DEF DefineKpi
<1>3. ASSUME NEW u \in Users, NEW k \in Kpis, BeginDraft(u, k) PROVE RegistryInv'
    <2> DEFINE r == Request("draft", k, Len(versions[k]) + 1, active[k])
    <2>1. r.kpi = k /\ r.version \in Nat /\ r.phase = "draft" /\ r.sees = active[k]
        BY DEF Request, RegistryInv
    <2>2. /\ status[k] \notin {"absent", "retired"} /\ LockFree(k)
          /\ lock' = [lock EXCEPT ![k] = u] /\ user' = [user EXCEPT ![u] = r]
          /\ UNCHANGED <<status, versions, active>>
        BY <1>3 DEF BeginDraft, Takes, Becomes
    <2> HIDE DEF r
    <2> QED BY <2>1, <2>2, ReadsKeep
<1>4. ASSUME NEW u \in Users, NEW k \in Kpis, BeginRetire(u, k) PROVE RegistryInv'
    <2> DEFINE r == Request("retire", k, 0, active[k])
    <2>1. r.kpi = k /\ r.version \in Nat /\ r.phase = "retire" /\ r.sees = active[k]
        BY DEF Request
    <2>2. /\ LockFree(k)
          /\ lock' = [lock EXCEPT ![k] = u] /\ user' = [user EXCEPT ![u] = r]
          /\ UNCHANGED <<status, versions, active>>
        BY <1>4 DEF BeginRetire, Takes, Becomes
    <2> HIDE DEF r
    <2> QED BY <2>1, <2>2, ReadsKeep
<1>5. ASSUME NEW u \in Users, NEW k \in Kpis, NEW n \in 1..MaxVersions, ReadDraft(u, k, n)
      PROVE  RegistryInv'
    <2> DEFINE r == Request("approval", k, n, 0)
    <2>1. r.kpi = k /\ r.version \in Nat /\ r.phase \notin Locked
        BY <1>5 DEF Request, Locked, ReadDraft, IsOpen, RegistryInv
    <2>2. user' = [user EXCEPT ![u] = r] /\ UNCHANGED <<status, versions, active, lock>>
        BY <1>5 DEF ReadDraft, Becomes
    <2> HIDE DEF r
    <2> QED BY <2>1, <2>2, ReadsKeep
<1>6. ASSUME NEW u \in Users, AssertApproved(u) PROVE RegistryInv'
    <2> DEFINE r == [user[u] EXCEPT !.phase = "confirmed"]
    <2>1. r.kpi \in Kpis /\ r.version \in Nat /\ r.phase \notin Locked
        BY DEF RegistryInv, Locked
    <2>2. user' = [user EXCEPT ![u] = r] /\ UNCHANGED <<status, versions, active, lock>>
        BY <1>6 DEF AssertApproved, Becomes
    <2> HIDE DEF r
    <2> QED BY <2>1, <2>2, ReadsKeep
<1>7. ASSUME NEW u \in Users, BeginPublish(u) PROVE RegistryInv'
    <2> DEFINE k == user[u].kpi
               r == Request("publish", k, user[u].version, active[k])
    <2>1. /\ r.kpi = k /\ k \in Kpis /\ r.version \in Nat
          /\ r.phase = "publish" /\ r.sees = active[k]
        BY DEF Request, RegistryInv
    <2>2. /\ status[k] \notin {"absent", "retired"} /\ LockFree(k)
          /\ lock' = [lock EXCEPT ![k] = u] /\ user' = [user EXCEPT ![u] = r]
          /\ UNCHANGED <<status, versions, active>>
        BY <1>7 DEF BeginPublish, Takes, Becomes, IsOpen, RegistryInv
    <2> HIDE DEF k, r
    <2> QED BY <2>1, <2>2, ReadsKeep
<1>8. ASSUME NEW u \in Users, RequestFails(u) PROVE RegistryInv'
    <2>1. /\ user' = [user EXCEPT ![u] = Idle] /\ lock' = Unlocked(u)
          /\ UNCHANGED <<status, versions, active>>
        BY <1>8 DEF RequestFails, EndTransaction, Becomes
    <2>2. Idle.phase \notin Locked
        BY IdleRequest DEF Locked
    <2> QED BY <2>1, <2>2, IdleRequest, ReadsKeep
<1> QED BY <1>1, <1>2, <1>3, <1>4, <1>5, <1>6, <1>7, <1>8,
           CommitDraftKeeps, CommitPublishKeeps, CommitRetireKeeps DEF RegistryStep

LEMMA InitRegistry == Init => RegistryInv
<1> SUFFICES ASSUME Init PROVE RegistryInv
    OBVIOUS
<1>1. /\ versions = [k \in Kpis |-> <<>>] /\ active = [k \in Kpis |-> 0]
      /\ status = [k \in Kpis |-> "absent"] /\ lock = [k \in Kpis |-> NoOne]
      /\ user = [u \in Users |-> Idle]
    BY DEF Init, RegistryInit
<1>2. <<>> \in Seq(VersionType) /\ Len(<<>>) = 0 /\ DOMAIN <<>> = {}
    OBVIOUS
<1>3. VersionsAreLinear
    <2> SUFFICES ASSUME NEW k \in Kpis
                 PROVE  active[k] <= Len(versions[k]) /\ DOMAIN versions[k] = {}
        BY DEF VersionsAreLinear
    <2>1. active[k] = 0 /\ versions[k] = <<>>
        BY <1>1
    <2> QED BY <1>2, <2>1
<1> QED BY <1>1, <1>2, <1>3, IdleRequest DEF RegistryInv, Locked

LEMMA RegistryStays == RegistryInv /\ [Next]_vars => RegistryInv'
<1> SUFFICES ASSUME RegistryInv, [Next]_vars PROVE RegistryInv'
    OBVIOUS
<1>1. ASSUME UNCHANGED registryVars PROVE RegistryInv'
    BY <1>1 DEF registryVars, RegistryInv, HoldsLock, VersionsAreLinear
<1>2. ASSUME NEW a \in Acceptors, AcceptStep(a) PROVE RegistryInv'
    <2>1. ASSUME NEW k \in Kpis, CreateKpi(a, k) PROVE RegistryInv'
        BY <2>1, NewDefinitionKeeps DEF CreateKpi
    <2>2. ASSUME \A k \in Kpis : ~CreateKpi(a, k) PROVE UNCHANGED registryVars
        BY <1>2, <2>2 DEF AcceptStep, Accept, BuildContext, Claim, CheckDuplicates, CreateOkr,
           Align, CreationFails, SettleClaim, SettleFails, ReleaseClaim, AwaitWinner, CallEnds
    <2> QED BY <1>1, <2>1, <2>2
<1> QED BY <1>1, <1>2, UserStepKeeps DEF Next, vars

\* Publications, drafts, retirements and accepted suggestions in any number keep
\* the versions of every KPI linear.
THEOREM VersionsStayLinear == Spec => []VersionsAreLinear
<1>1. RegistryInv => VersionsAreLinear
    BY DEF RegistryInv
<1> QED BY <1>1, InitRegistry, RegistryStays, PTL DEF Spec

\* No step leaves a retired KPI other than it was: whoever would change it has
\* seen under the lock that it is not retired.
LEMMA RetiredStays ==
    ASSUME RegistryInv, [Next]_vars, NEW k \in Kpis, status[k] = "retired"
    PROVE  status'[k] = "retired" /\ versions'[k] = versions[k]
<1>1. ASSUME NEW j \in Kpis, NewDefinition(j)
      PROVE  status'[k] = "retired" /\ versions'[k] = versions[k]
    BY <1>1 DEF NewDefinition, RegistryInv
<1>2. ASSUME NEW u \in Users, user[u].phase \in {"draft", "publish"}
      PROVE  user[u].kpi # k
    BY <1>2 DEF RegistryInv, HoldsLock, Locked
<1>3. ASSUME NEW u \in Users, CommitDraft(u) \/ CommitPublish(u) \/ CommitRetire(u)
      PROVE  status'[k] = "retired" /\ versions'[k] = versions[k]
    BY <1>2, <1>3 DEF CommitDraft, CommitPublish, CommitRetire, At, RegistryInv
<1>4. ASSUME RegistryStep PROVE status'[k] = "retired" /\ versions'[k] = versions[k]
    BY <1>1, <1>3, <1>4 DEF RegistryStep, Approve, DefineKpi, BeginDraft, BeginRetire, ReadDraft,
       AssertApproved, BeginPublish, RequestFails
<1>5. ASSUME NEW a \in Acceptors, AcceptStep(a)
      PROVE  status'[k] = "retired" /\ versions'[k] = versions[k]
    BY <1>1, <1>5 DEF AcceptStep, Accept, BuildContext, Claim, CheckDuplicates, CreateKpi,
       CreateOkr, Align, CreationFails, SettleClaim, SettleFails, ReleaseClaim, AwaitWinner,
       CallEnds, registryVars
<1> QED BY <1>4, <1>5 DEF Next, vars, registryVars

\* Retirement is final for every KPI, whatever drafts and publications were
\* under way when it committed.
THEOREM RetirementIsFinal == Spec => RetiredIsFinal
<1>1. RegistryInv /\ [Next]_vars =>
          [\A k \in Kpis : status[k] = "retired" =>
              status'[k] = "retired" /\ versions'[k] = versions[k]]_registryVars
    BY RetiredStays
<1> QED BY <1>1, InitRegistry, RegistryStays, PTL DEF Spec, RetiredIsFinal

-----------------------------------------------------------------------------
\* Types.  A user under way has read a version number within the bound; a claim
\* names a record from the moment it is settled.

RequestType == [phase : Locked \cup {"idle", "approval", "confirmed"},
                kpi : Kpis, version : 0..MaxVersions, sees : 0..MaxVersions]

TypeInv ==
    /\ status \in [Kpis -> {"absent", "draft", "active", "retired"}]
    /\ approved \subseteq Kpis
    /\ lock \in [Kpis -> Users \cup {NoOne}]
    /\ user \in [Users -> RequestType]
    /\ \A k \in Kpis : Len(versions[k]) <= MaxVersions
    /\ \A s \in Suggested : claim[s] = "settled" <=> subject[s] # NoRecord

LEMMA IdleType == Idle \in RequestType
<1> QED BY KpiAssumption, VersionAssumption DEF Idle, Request, RequestType

\* An active version is one of the versions.
LEMMA ActiveBound ==
    ASSUME RegistryInv, TypeInv, NEW k \in Kpis
    PROVE  active[k] \in 0..MaxVersions /\ Len(versions[k]) \in 0..MaxVersions
<1>1. active[k] \in Nat /\ Len(versions[k]) \in Nat /\ active[k] <= Len(versions[k])
    BY DEF RegistryInv, VersionsAreLinear
<1> QED BY <1>1, VersionAssumption DEF TypeInv

LEMMA NewDefinitionTyped ==
    ASSUME RegistryInv, TypeInv, NEW k \in Kpis, NewDefinition(k),
           UNCHANGED <<active, approved, lock, user>>
    PROVE  /\ status' \in [Kpis -> {"absent", "draft", "active", "retired"}]
           /\ \A j \in Kpis : Len(versions'[j]) <= MaxVersions
<1>1. \A j \in Kpis : versions'[j] = IF j = k THEN <<Draft>> ELSE versions[j]
    BY DEF NewDefinition, RegistryInv
<1>2. Len(<<Draft>>) = 1 /\ 1 <= MaxVersions
    BY VersionAssumption
<1> QED BY <1>1, <1>2 DEF TypeInv, NewDefinition

LEMMA RegistryStepTyped ==
    ASSUME RegistryInv, TypeInv, RegistryStep, UNCHANGED suggestionVars
    PROVE  TypeInv'
<1> USE DEF suggestionVars
<1>1. ASSUME NEW k \in Kpis, Approve(k) PROVE TypeInv'
    BY <1>1 DEF Approve, TypeInv
<1>2. ASSUME NEW u \in Users, NEW k \in Kpis, DefineKpi(u, k) PROVE TypeInv'
    BY <1>2, NewDefinitionTyped DEF DefineKpi, TypeInv
<1>3. ASSUME NEW u \in Users, NEW k \in Kpis, BeginDraft(u, k) PROVE TypeInv'
    <2> DEFINE r == Request("draft", k, Len(versions[k]) + 1, active[k])
    <2>1. r \in RequestType
        BY <1>3, ActiveBound, VersionAssumption DEF BeginDraft, Request, RequestType, Locked
    <2>2. /\ lock' = [lock EXCEPT ![k] = u] /\ user' = [user EXCEPT ![u] = r]
          /\ UNCHANGED <<status, versions, active, approved>>
        BY <1>3 DEF BeginDraft, Takes, Becomes
    <2> HIDE DEF r
    <2> QED BY <2>1, <2>2 DEF TypeInv
<1>4. ASSUME NEW u \in Users, NEW k \in Kpis, BeginRetire(u, k) PROVE TypeInv'
    <2> DEFINE r == Request("retire", k, 0, active[k])
    <2>1. r \in RequestType
        BY ActiveBound, VersionAssumption DEF Request, RequestType, Locked
    <2>2. /\ lock' = [lock EXCEPT ![k] = u] /\ user' = [user EXCEPT ![u] = r]
          /\ UNCHANGED <<status, versions, active, approved>>
        BY <1>4 DEF BeginRetire, Takes, Becomes
    <2> HIDE DEF r
    <2> QED BY <2>1, <2>2 DEF TypeInv
<1>5. ASSUME NEW u \in Users, NEW k \in Kpis, NEW n \in 1..MaxVersions, ReadDraft(u, k, n)
      PROVE  TypeInv'
    <2> DEFINE r == Request("approval", k, n, 0)
    <2>1. r \in RequestType
        BY VersionAssumption DEF Request, RequestType
    <2>2. user' = [user EXCEPT ![u] = r] /\ UNCHANGED <<status, versions, active, approved, lock>>
        BY <1>5 DEF ReadDraft, Becomes
    <2> HIDE DEF r
    <2> QED BY <2>1, <2>2 DEF TypeInv
<1>6. ASSUME NEW u \in Users, AssertApproved(u) PROVE TypeInv'
    BY <1>6 DEF AssertApproved, Becomes, TypeInv, RequestType
<1>7. ASSUME NEW u \in Users, BeginPublish(u) PROVE TypeInv'
    <2> DEFINE k == user[u].kpi
               r == Request("publish", k, user[u].version, active[k])
    <2>1. k \in Kpis
        BY DEF RegistryInv
    <2>2. user[u].version \in 0..MaxVersions
        BY DEF TypeInv, RequestType
    <2>3. /\ lock' = [lock EXCEPT ![k] = u] /\ user' = [user EXCEPT ![u] = r]
          /\ UNCHANGED <<status, versions, active, approved>>
        BY <1>7 DEF BeginPublish, Takes, Becomes
    <2> HIDE DEF k
    <2>4. r \in RequestType
        BY <2>1, <2>2, ActiveBound DEF Request, RequestType, Locked
    <2> HIDE DEF r
    <2> QED BY <2>1, <2>3, <2>4 DEF TypeInv
<1>8. ASSUME NEW u \in Users, EndTransaction(u)
      PROVE  /\ lock' \in [Kpis -> Users \cup {NoOne}]
             /\ user' \in [Users -> RequestType]
    BY <1>8, IdleType DEF EndTransaction, Unlocked, Becomes, TypeInv
<1>9. ASSUME NEW u \in Users, CommitDraft(u) PROVE TypeInv'
    <2> DEFINE k == user[u].kpi
               vs == versions[k]
    <2>1. /\ k \in Kpis /\ vs \in Seq(VersionType) /\ Draft \in VersionType
          /\ user[u].version \in 0..MaxVersions
        BY DEF RegistryInv, TypeInv, RequestType, Draft, Version, VersionType
    <2>2. /\ user[u].version = Len(vs) + 1
          /\ versions' = [versions EXCEPT ![k] = Append(vs, Draft)]
          /\ EndTransaction(u) /\ UNCHANGED <<status, active, approved>>
        BY <1>9 DEF CommitDraft
    <2> HIDE DEF k, vs
    <2>3. Len(Append(vs, Draft)) <= MaxVersions
        BY <2>1, <2>2, VersionAssumption
    <2>4. \A j \in Kpis : versions'[j] = IF j = k THEN Append(vs, Draft) ELSE versions[j]
        BY <2>1, <2>2 DEF RegistryInv
    <2> QED BY <1>8, <2>2, <2>3, <2>4 DEF TypeInv
<1>10. ASSUME NEW u \in Users, CommitPublish(u) PROVE TypeInv'
    <2> DEFINE k == user[u].kpi
               n == user[u].version
               ws == [versions[k] EXCEPT ![n] = Version(TRUE, user[u].sees)]
    <2>1. /\ k \in Kpis /\ versions[k] \in Seq(VersionType) /\ n \in DOMAIN versions[k]
          /\ Version(TRUE, user[u].sees) \in VersionType
        BY <1>10 DEF RegistryInv, CommitPublish, IsOpen, Version, VersionType, TypeInv, RequestType
    <2>2. Len(ws) = Len(versions[k])
        BY <2>1
    <2>3. /\ versions' = [versions EXCEPT ![k] = ws]
          /\ status' = [status EXCEPT ![k] = "active"]
          /\ EndTransaction(u) /\ UNCHANGED approved
        BY <1>10, <2>1 DEF CommitPublish, RegistryInv
    <2> HIDE DEF k, ws
    <2>4. \A j \in Kpis : versions'[j] = IF j = k THEN ws ELSE versions[j]
        BY <2>1, <2>3 DEF RegistryInv
    <2> QED BY <1>8, <2>2, <2>3, <2>4 DEF TypeInv
<1>11. ASSUME NEW u \in Users, CommitRetire(u) PROVE TypeInv'
    BY <1>8, <1>11 DEF CommitRetire, TypeInv
<1>12. ASSUME NEW u \in Users, RequestFails(u) PROVE TypeInv'
    BY <1>8, <1>12 DEF RequestFails, TypeInv
<1> QED BY <1>1, <1>2, <1>3, <1>4, <1>5, <1>6, <1>7, <1>9, <1>10, <1>11, <1>12 DEF RegistryStep

LEMMA AcceptStepTyped ==
    ASSUME RegistryInv, ClaimInv, TypeInv, NEW a \in Acceptors, AcceptStep(a)
    PROVE  TypeInv'
<1>1. /\ status' \in [Kpis -> {"absent", "draft", "active", "retired"}]
      /\ approved' = approved /\ lock' = lock /\ user' = user
      /\ \A k \in Kpis : Len(versions'[k]) <= MaxVersions
    <2>1. ASSUME NEW k \in Kpis, CreateKpi(a, k)
          PROVE  /\ status' \in [Kpis -> {"absent", "draft", "active", "retired"}]
                 /\ UNCHANGED <<approved, lock, user>>
                 /\ \A j \in Kpis : Len(versions'[j]) <= MaxVersions
        BY <2>1, NewDefinitionTyped DEF CreateKpi
    <2>2. ASSUME \A k \in Kpis : ~CreateKpi(a, k) PROVE UNCHANGED registryVars
        BY <2>2 DEF AcceptStep, Accept, BuildContext, Claim, CheckDuplicates, CreateOkr,
           Align, CreationFails, SettleClaim, SettleFails, ReleaseClaim, AwaitWinner, CallEnds
    <2> QED BY <2>1, <2>2 DEF TypeInv, registryVars
<1>2. \A s \in Suggested : claim'[s] = "settled" <=> subject'[s] # NoRecord
    <2>1. ASSUME SettleClaim(a)
          PROVE  \A s \in Suggested : claim'[s] = "settled" <=> subject'[s] # NoRecord
        BY <2>1, RecordAssumption
           DEF SettleClaim, ClaimInv, TypeInv, Calls, Holds, Holding, Of, AcceptorType
    <2>2. ASSUME ~SettleClaim(a)
          PROVE  \A s \in Suggested : claim'[s] = "settled" <=> subject'[s] # NoRecord
        BY <2>2 DEF AcceptStep, Accept, BuildContext, Claim, Claimable, CheckDuplicates,
           CreateKpi, CreateOkr, Makes, Align, CreationFails, SettleFails, ReleaseClaim,
           AwaitWinner, CallEnds, ClaimInv, TypeInv
    <2> QED BY <2>1, <2>2
<1> QED BY <1>1, <1>2 DEF TypeInv

LEMMA InitTyped == Init => TypeInv
<1> SUFFICES ASSUME Init PROVE TypeInv
    OBVIOUS
<1>1. \A k \in Kpis : versions[k] = <<>>
    BY DEF Init, RegistryInit
<1>2. Len(<<>>) = 0 /\ 0 <= MaxVersions
    BY VersionAssumption
<1>3. \A k \in Kpis : Len(versions[k]) <= MaxVersions
    BY <1>1, <1>2
<1> QED BY <1>3, IdleType DEF Init, RegistryInit, TypeInv

LEMMA StaysTyped == RegistryInv /\ ClaimInv /\ TypeInv /\ [Next]_vars => TypeInv'
<1> SUFFICES ASSUME RegistryInv, ClaimInv, TypeInv, [Next]_vars PROVE TypeInv'
    OBVIOUS
<1>1. ASSUME UNCHANGED vars PROVE TypeInv'
    BY <1>1 DEF vars, registryVars, suggestionVars, TypeInv
<1> QED BY <1>1, RegistryStepTyped, AcceptStepTyped DEF Next

\* Every state is well typed: a user never holds a version number past those of
\* the KPI it works on, and a claim is settled when and only when it names a record.
THEOREM SuggestionsAreWellTyped == Spec => []TypeOK
<1>1. RegistryInv /\ ClaimInv /\ TypeInv => TypeOK
    BY DEF RegistryInv, ClaimInv, TypeInv, TypeOK, RegistryTypeOK, VersionType, RequestType,
       AcceptorType, Holding
<1> QED BY <1>1, InitRegistry, RegistryStays, InitClaims, ClaimsStayHeld, InitTyped, StaysTyped,
           PTL DEF Spec
=============================================================================
