------------------------------ MODULE MCPeople -------------------------------
(* Rows and workloads for model-checking People and Visibility. *)
EXTENDS Visibility, TLC

MCId == 1..3 \cup {11, 12, 13, 14, 15, 16, 17, 18}

Login(base, host, role, firm) ==
  [name |-> <<base, 1>>, email |-> <<base, host>>, role |-> role, firm |-> firm, active |-> TRUE]

\* Firm 11 works, with a manager and agent 12; firm 13 waits for its registration bill to
\* be paid, with an agent left from before; agent 14 is the council's own.  Two agents
\* that are gone have left a gap in the codes.
MCFirstRows ==
  (User(11) :> Login(1, 1, "CONSULTANT", 11)) @@ (User(12) :> Login(2, 1, "AGENT", 11))
  @@ (User(13) :> Login(3, 1, "AGENT", 13)) @@ (User(14) :> Login(4, 1, "AGENT", None))
  @@ (User(15) :> Login(5, 1, "COUNCIL_ADMIN", None)) @@ (User(16) :> Login(6, 1, "RATEPAYER", None))
  @@ (User(17) :> Login(7, 1, "RATEPAYER_PROXY", None)) @@ (User(18) :> Login(9, 1, "RATEPAYER_PROXY", None))
  @@ (Firm(11) :> [ref |-> 1, status |-> "ACTIVE", payer |-> None, start |-> 2, end |-> 4])
  @@ (Firm(13) :> [ref |-> 3, status |-> "PENDING", payer |-> 13, start |-> 0, end |-> 0])
  @@ (Agent(12) :> [user |-> 12, code |-> 3, ward |-> 1, status |-> "ACTIVE"]) @@ (Agent(13) :> [user |-> 13, code |-> 4, ward |-> 2, status |-> "ACTIVE"])
  @@ (Agent(14) :> [user |-> 14, code |-> 5, ward |-> 1, status |-> "ACTIVE"])
  @@ (Grant(11) :> [whom |-> 11, item |-> 1, ward |-> 0, open |-> TRUE])
  @@ (Payer(12) :> [phone |-> 1, ward |-> 1, kyc |-> "PENDING", by |-> 12, to |-> None, login |-> 16])
  @@ (Payer(13) :> [phone |-> 0, ward |-> 0, kyc |-> "PENDING", by |-> 15, to |-> None, login |-> None])
  @@ (Payer(14) :> [phone |-> 2, ward |-> 1, kyc |-> "PENDING", by |-> 14, to |-> None, login |-> None])
  @@ (Bill(13) :> [payer |-> 13, status |-> "ISSUED"])
  @@ (Delegation(12) :> [payer |-> 12, proxy |-> 17, open |-> TRUE])

Job(kind, x) ==
  [kind |-> kind, on |-> x, ref |-> 0, login |-> FALSE, billable |-> TRUE, email |-> <<1, 2>>, by |-> 15, firm |-> None,
   status |-> "ACTIVE", start |-> 0, end |-> 0, item |-> 1, ward |-> 0, phone |-> 0, force |-> FALSE, agent |-> 12,
   proxy |-> 17]

Onboard(ref, login, email) == [Job("ONBOARD", Firm(11)) EXCEPT !.ref = ref, !.login = login, !.email = email]
Unbillable(j) == [j EXCEPT !.billable = FALSE]
Mail(j, email) == [j EXCEPT !.email = email]
Status(f, s) == [Job("STATUS", Firm(f)) EXCEPT !.status = s]
Dates(start, end) == [Job("DATES", Firm(11)) EXCEPT !.start = start, !.end = end]
Item(j, item, ward) == [j EXCEPT !.item = item, !.ward = ward]
Enrolled(phone, force, firm) == [Job("ENROL", Payer(12)) EXCEPT !.phone = phone, !.force = force, !.firm = firm]
Replayed(phone, ward) == [Job("REPLAY", Payer(12)) EXCEPT !.phone = phone, !.ward = ward, !.by = 12]
By(j, u) == [j EXCEPT !.by = u]
Granting(proxy) == [Job("DELEGATE", Payer(12)) EXCEPT !.by = 16, !.proxy = proxy]
Ending(d) == By(Job("REVOKE", Delegation(d)), 16)
Confirmed == [Job("RESET", Firm(11)) EXCEPT !.force = TRUE]
Assign(p, a) == [Job("ASSIGN", Payer(p)) EXCEPT !.agent = a]

AgentOf(f, email) == Mail(Job("AGENT", Firm(f)), email)

\* A council whose firms came before registration payers.
MCOlderRows == [MCFirstRows EXCEPT ![Firm(13)].payer = None]

MCWorkloads == ({MCFirstRows} \X {
  \* Onboardings with one contract reference, one user name, one email.
  <<Onboard(2, TRUE, <<1, 2>>), Onboard(2, TRUE, <<1, 3>>), Mail(Job("OFFICER", Firm(11)), <<1, 2>>)>>,
  <<Unbillable(Onboard(2, TRUE, <<2, 2>>)), Onboard(2, FALSE, <<2, 3>>), AgentOf(11, <<2, 2>>)>>,
  \* Agents with colliding codes, names and emails, of a firm being suspended.
  <<AgentOf(11, <<2, 2>>), AgentOf(11, <<2, 3>>), Mail(Job("STAKEHOLDER", Firm(11)), <<2, 4>>)>>,
  <<AgentOf(11, <<8, 2>>), AgentOf(11, <<8, 2>>), Status(11, "SUSPENDED")>>,
  <<AgentOf(13, <<8, 2>>), Status(13, "ACTIVE"), Job("PAY", Bill(13))>>,
  <<Job("PAY", Bill(13)), Status(13, "ACTIVE"), Job("REVERSE", Bill(13))>>,
  \* One date each.
  <<Dates(3, 0), Dates(0, 2), Dates(5, 0)>>,
  <<[Onboard(2, FALSE, <<1, 2>>) EXCEPT !.start = 3, !.end = 2], Dates(2, 0), [Dates(3, 0) EXCEPT !.on = Firm(2)]>>,
  \* Grants given and ended twice over.
  <<Item(Job("GRANT", Firm(11)), 2, 0), Item(Job("GRANT", Firm(11)), 2, 0), Item(Job("NARROW", Agent(12)), 2, 0)>>,
  <<Job("NARROW", Agent(12)), Job("NARROW", Agent(12)), Job("ENDGRANT", Grant(11))>>,
  <<Job("NARROW", Agent(12)), Job("ENDNARROW", Narrowing(1)), Item(Job("NARROW", Agent(14)), 1, 1)>>,
  \* Payers of one telephone number, put down to a firm whose login is deactivated.
  <<Enrolled(3, FALSE, 11), Enrolled(3, TRUE, None), Job("DEACTIVATE", User(11))>>,
  <<Enrolled(1, FALSE, None), Enrolled(1, TRUE, 13), Enrolled(4, FALSE, 11)>>,
  \* A payer deleted beside its first bill, delegation, login.
  <<Job("DESTROY", Payer(14)), Job("BILL", Payer(14)), Job("KYC", Payer(14))>>,
  <<Job("DESTROY", Payer(12)), Granting(18), Ending(12)>>,
  <<Job("DESTROY", Payer(14)), Job("INVITE", Payer(14)), Mail(Job("INVITE", Payer(14)), <<1, 3>>)>>,
  <<Job("DESTROY", Payer(14)), Job("BILL", Payer(14)), Assign(14, 14)>>,
  <<Job("DESTROY", Payer(13)), Job("BILL", Payer(13)), Status(13, "ACTIVE")>>,
  \* Delegations granted and revoked at once.
  <<Ending(12), Granting(17), Ending(2)>>,
  <<Granting(18), Granting(18), Ending(1)>>,
  <<Ending(12), Ending(12), Granting(17)>>,
  <<Granting(16), By(Granting(18), 15), By(Ending(12), 17)>>,
  \* Payers handed over.
  <<Assign(12, 13), Assign(12, 14), Assign(12, 12)>>,
  <<Assign(14, 12), Assign(14, 14), Enrolled(0, FALSE, 11)>>,
  \* Payers enrolled offline, twice over and beside the same one enrolled here.
  <<Replayed(3, 1), Replayed(3, 1), Enrolled(3, FALSE, None)>>,
  <<Replayed(3, 2), Replayed(4, 1), Assign(2, 14)>>,
  \* An agent bills and collects for a payer that is handed to another.
  <<By(Job("BILL", Payer(12)), 12), By(Job("PAY", Bill(1)), 12), Assign(12, 13)>>,
  <<By(Job("INVITE", Payer(14)), 12), [Job("AGENTSTATUS", Agent(12)) EXCEPT !.status = "SUSPENDED"], Job("KYC", Payer(14))>>,
  \* A reset that is not confirmed, one of a council with a registered firm.
  <<Job("RESET", Firm(11)), Onboard(2, TRUE, <<1, 2>>), Confirmed>>
}) \cup ({MCOlderRows} \X {
  \* The reset beside an onboarding, enrolments, deletions.
  <<Confirmed, By(Enrolled(0, FALSE, None), 11), Assign(14, 12)>>,
  <<Confirmed, AgentOf(11, <<8, 2>>), Job("DESTROY", Payer(14))>>,
  <<Confirmed, Job("BILL", Payer(12)), Job("DEACTIVATE", User(11))>>,
  <<Confirmed, Job("INVITE", Payer(14)), Granting(18)>>,
  <<Confirmed, Onboard(2, FALSE, <<1, 2>>), Replayed(3, 1)>>
})
=============================================================================
