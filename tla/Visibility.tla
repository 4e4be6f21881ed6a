----------------------------- MODULE Visibility ------------------------------
(***************************************************************************)
(* Who is shown which rows of a council: the lists of the staff endpoints  *)
(* and of the ratepayer portal over the committed rows of module People.   *)
(* A receipt is named by its payment and a debt case by its bill.          *)
(***************************************************************************)
EXTENDS People

\* AppRole: the council's access levels.
Oversight == {"COUNCIL_IGR_HEAD", "COUNCIL_TREASURY", "COUNCIL_AUDITOR"}
Levels == {"COUNCIL_ADMIN", "COUNCIL_IT", "AGENT", "AGENT_SUPERVISOR", "GLOBAL_VIEW"} \cup FirmScoped \cup Oversight

\* Every user seen through every level.
Viewers == {As(l, u[2]) : l \in Levels, u \in Present("user")}

-----------------------------------------------------------------------------
(* The levels each endpoint lets in, and those that may create there. *)

\* Defect: the levels that came with the roles matrix are left out.
FirstLevels == {"COUNCIL_ADMIN", "CONSULTANT", "AGENT", "REVENUE_OFFICER"}

PayerReaders ==
  {"COUNCIL_ADMIN", "CONSULTANT", "AGENT", "REVENUE_OFFICER", "CONSULTANT_STAFF", "AGENT_SUPERVISOR"} \cup Oversight
BillReaders == FirmScoped \cup Oversight \cup {"COUNCIL_ADMIN", "AGENT", "AGENT_SUPERVISOR"}
PaymentReaders == FirmScoped \cup Oversight \cup {"COUNCIL_ADMIN", "AGENT", "AGENT_SUPERVISOR"}
ReceiptReaders == FirmScoped \cup Oversight \cup {"COUNCIL_ADMIN", "AGENT", "AGENT_SUPERVISOR"}
DebtReaders == FirmScoped \cup Oversight \cup {"COUNCIL_ADMIN"}
AgentReaders ==
  {"COUNCIL_ADMIN", "CONSULTANT", "COUNCIL_IT", "CONSULTANT_STAFF", "COUNCIL_AUDITOR", "COUNCIL_IGR_HEAD", "AGENT_SUPERVISOR"}
AgentCreators == {"COUNCIL_ADMIN", "CONSULTANT", "COUNCIL_IT"}
StakeholderManagers == {"COUNCIL_ADMIN", "COUNCIL_IT"}
OfficerManagers == {"COUNCIL_ADMIN", "COUNCIL_IT"}
FirmReaders == {"COUNCIL_ADMIN", "COUNCIL_IT"} \cup Oversight
FirmCreators == {"COUNCIL_ADMIN"}

-----------------------------------------------------------------------------
(* The lists. *)

Listed(v, readers, S) == IF v.level \in readers THEN S ELSE {}

\* PayerViewSet.get_queryset
PayersListed(v) == Listed(v, PayerReaders, {p \in Present("payer") : InPortfolio(v, p)})

\* apply_payer_dimension_filters: what of S is in a ward, or of a firm; 0 is any.
Narrowed(S, ward, firm) ==
  {p \in S : (ward # 0 => shown[p].ward = ward) /\ (firm # None => shown[User(shown[p].by)].firm = firm)}

\* BillViewSet.get_queryset
BillsListed(v) == Listed(v, BillReaders, {b \in Present("bill") : InPortfolio(v, Payer(shown[b].payer))})

\* DebtCaseViewSet.get_queryset, by the bills of the cases
DebtsListed(v) == Listed(v, DebtReaders, {b \in Present("bill") : InPortfolio(v, Payer(shown[b].payer))})

PayerOf(m) == Payer(shown[Bill(shown[m].bill)].payer)

\* PaymentViewSet.get_queryset
PaymentsListed(v) == Listed(v, PaymentReaders, {m \in Present("payment") : InPortfolio(v, PayerOf(m))})

\* ReceiptViewSet.get_queryset, by the payments of the receipts
ReceiptsListed(v) == Listed(v, ReceiptReaders, {m \in Present("payment") : InPortfolio(v, PayerOf(m))})

\* FieldAgentViewSet.get_queryset
AgentsListed(v) ==
  Listed(v, AgentReaders,
         {a \in Present("agent") :
            CASE v.level \in {"CONSULTANT", "CONSULTANT_STAFF"} -> shown[User(shown[a].user)].firm = v.firm
              [] v.level = "AGENT_SUPERVISOR" -> v.ward # 0 /\ shown[a].ward = v.ward
              [] OTHER -> TRUE})

\* StakeholderViewSet.get_queryset
StakeholdersListed(v) == Listed(v, StakeholderManagers, {u \in Present("user") : shown[u].role = "GLOBAL_VIEW"})

\* SubConsultantViewSet.revenue_officers
OfficersListed(v, f) ==
  Listed(v, OfficerManagers, {u \in Present("user") : shown[u].role = "REVENUE_OFFICER" /\ shown[u].firm = f})

\* SubConsultantViewSet.get_queryset
FirmsListed(v) == Listed(v, FirmReaders, Present("firm"))

\* get_worklist: of agent a.
WorkList(a) ==
  IF shown[a].ward = 0 THEN {}
  ELSE {p \in Present("payer") : shown[p].ward = shown[a].ward /\ Keeper(p) = shown[a].user}

\* accessible_payer_ids: the payer of a login and those delegated to it.
AccessiblePayerIds(u) ==
  {p[2] : p \in {q \in Present("payer") : shown[q].login = u}}
  \cup {shown[d].payer : d \in {e \in Present("delegation") : shown[e].open /\ shown[e].proxy = u}}

\* RatepayerPortalViewSet.bills
PortalBills(u) == {b \in Present("bill") : shown[b].payer \in AccessiblePayerIds(u)}

\* RatepayerPortalViewSet.payments and receipts
PortalPayments(u) == {m \in Present("payment") : Bill(shown[m].bill) \in PortalBills(u)}

-----------------------------------------------------------------------------
(* Properties. *)

\* What an agent is shown, the managers of the agent's firm are shown too, and so is the
\* supervisor of the agent's ward; the worklist holds nothing the agent's own list of
\* payers does not.  Handing payers over, enrolling for a firm and replaying offline
\* records never breaks that (FieldAgentViewSet.assign_payer, common/scoping.py:
\* "only the assigned agent (and the consultant manager, via the branch below) sees it").
\* And whoever is shown a receipt, a payment, a bill or a debt case is shown the row it
\* leads to, up to the payer (PayerViewSet: five levels once could not, "despite already
\* reading bills/payments/receipts that embed the same payer's name/ref").
ListsNest ==
  /\ \A a \in Present("agent") :
       LET agent == As("AGENT", shown[a].user)
           theirs == PayersListed(agent)
       IN /\ WorkList(a) \subseteq Narrowed(theirs, agent.ward, None)
          /\ agent.firm # None => \A l \in FirmScoped : theirs \subseteq PayersListed(As(l, agent.user))
          /\ agent.ward # 0 => theirs \subseteq PayersListed(As("AGENT_SUPERVISOR", agent.user))
  /\ \A v \in Viewers :
       /\ ReceiptsListed(v) \subseteq PaymentsListed(v)
       /\ \A m \in PaymentsListed(v) : Bill(shown[m].bill) \in BillsListed(v)
       /\ DebtsListed(v) \subseteq BillsListed(v)
       /\ \A b \in BillsListed(v) : Payer(shown[b].payer) \in PayersListed(v)

\* Whoever creates a row finds it in the lists of those that may create one like it: a
\* payer with the caller or, when it was enrolled for a firm, with the firm, and on the
\* worklist when it was enrolled offline, unless it was handed on; an agent, an officer,
\* a stakeholder, a firm with every level that may onboard one (FieldAgentViewSet: "A role
\* that can create a resource always needs to be able to list it").
CreatorsFindTheirs ==
  \A r \in Request : at[r] = "done" =>
    LET by == job[r].by
        p == Payer(r)
    IN /\ Is(r, {"ENROL", "REPLAY"}) /\ shown[p] # Absent =>
            IF job[r].firm # None
            THEN \A l \in FirmScoped : p \in PayersListed([level |-> l, user |-> None, firm |-> job[r].firm, ward |-> 0])
            ELSE shown[p].to = None =>
                   /\ p \in PayersListed(Caller(r))
                   /\ Is(r, {"REPLAY"}) => \E a \in Present("agent") : p \in WorkList(a) /\ shown[a].user = by
       /\ Is(r, {"AGENT"}) /\ shown[Agent(r)] # Absent =>
            \A l \in AgentCreators : Agent(r) \in AgentsListed([level |-> l, user |-> by, firm |-> On(r)[2], ward |-> 0])
       /\ Is(r, {"OFFICER", "STAKEHOLDER"}) /\ shown[User(r)] # Absent =>
            \A l \in OfficerManagers \cap StakeholderManagers :
              User(r) \in OfficersListed(As(l, by), On(r)[2]) \cup StakeholdersListed(As(l, by))
       /\ Is(r, {"ONBOARD"}) /\ shown[Firm(r)] # Absent => \A l \in FirmCreators : Firm(r) \in FirmsListed(As(l, by))

\* When a ratepayer's revocation of a delegation that still stands commits, the proxy is
\* shown no bill and no payment of the payer any more, whatever delegations overlapped it
\* (accessible_payer_ids, uniq_active_delegation_per_proxy).
RevocationEndsAccess ==
  [][\A r \in Request : job[r].kind = "REVOKE" /\ at[r] = "commit" /\ at'[r] = "done" /\ shown[On(r)].open =>
       LET p == shown[On(r)].payer
           proxy == shown[On(r)].proxy
       IN /\ p \notin AccessiblePayerIds(proxy)'
          /\ \A b \in PortalBills(proxy)' : shown'[b].payer # p
          /\ \A m \in PortalPayments(proxy)' : Bill(shown'[m].bill) \in PortalBills(proxy)']_vars
=============================================================================
