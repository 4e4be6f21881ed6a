------------------------------ MODULE MCAccess -------------------------------
(* Rows and workloads for model-checking Access. *)
EXTENDS Access

MCId == 1..3 \cup {11, 12, 13, 14, 15, 16, 17}

Login(council, level, must) ==
  [council |-> council, level |-> level, name |-> 0, active |-> TRUE, password |-> 0, must |-> must]

\* Councils 11, 12 and, closed, 13; users 11 of council 11 and 12 of council 12, platform
\* users 13 (all councils), 14 (granted 11 for good, 12 until tick 2) and 15 (no council).
\* User 11 has refresh tokens 11 and 16; 17 is of a user 17 who must change the password.
MCFirstRows ==
  (Council(11) :> [code |-> 1, active |-> TRUE]) @@ (Council(12) :> [code |-> 2, active |-> TRUE])
  @@ (Council(13) :> [code |-> 3, active |-> FALSE])
  @@ (Config(11) :> [council |-> 11, prefix |-> "p1"]) @@ (Config(12) :> [council |-> 12, prefix |-> "p2"])
  @@ (Record(11) :> [council |-> 11, under |-> None]) @@ (Record(12) :> [council |-> 12, under |-> None])
  @@ (Record(13) :> [council |-> 13, under |-> None])
  @@ (Record(14) :> [council |-> 11, under |-> 11]) @@ (Record(15) :> [council |-> 11, under |-> 11])
  @@ (Receipt(11) :> [council |-> 11, count |-> 0]) @@ (Receipt(12) :> [council |-> 12, count |-> 1])
  @@ (Area(11) :> [council |-> 11, code |-> 1, name |-> 0, active |-> TRUE])
  @@ (Client(11) :> [council |-> 11, code |-> 1, name |-> 0, active |-> TRUE])
  @@ (User(11) :> Login(11, "ADMIN", FALSE)) @@ (User(12) :> Login(12, "ADMIN", FALSE))
  @@ (User(13) :> Login(None, "GLOBAL", FALSE)) @@ (User(14) :> Login(None, "GRANTED", FALSE))
  @@ (User(15) :> Login(None, "DEVOPS", FALSE)) @@ (User(17) :> Login(11, "ADMIN", TRUE))
  @@ (Grant(11) :> [user |-> 14, council |-> 11, until |-> 0]) @@ (Grant(12) :> [user |-> 14, council |-> 12, until |-> 2])
  @@ (Token(11) :> [user |-> 11, council |-> 11, must |-> FALSE]) @@ (Token(12) :> [user |-> 12, council |-> 12, must |-> FALSE])
  @@ (Token(13) :> [user |-> 13, council |-> None, must |-> FALSE]) @@ (Token(14) :> [user |-> 14, council |-> None, must |-> FALSE])
  @@ (Token(15) :> [user |-> 15, council |-> None, must |-> FALSE]) @@ (Token(16) :> [user |-> 11, council |-> 11, must |-> FALSE])
  @@ (Token(17) :> [user |-> 17, council |-> 11, must |-> TRUE])

Job(kind, x) ==
  [kind |-> kind, on |-> x, bearer |-> 11, token |-> 11, password |-> 0, prefix |-> "p3", code |-> 4, worker |-> "w1"]

As(j, token) == [j EXCEPT !.bearer = token]
With(j, token) == [j EXCEPT !.token = token]
In(j, w) == [j EXCEPT !.worker = w]
Onboard(code, prefix) == [As(Job("ONBOARD", Council(11)), 13) EXCEPT !.code = code, !.prefix = prefix]
Find(prefix) == [Job("LOOKUP", Record(11)) EXCEPT !.prefix = prefix]
Pass(j, p) == [j EXCEPT !.password = p]

List == Job("LIST", Record(11))
Drill == Job("DRILL", Record(11))
Close(c) == As(Job("CLOSE", Council(c)), 13)
Log(u) == Job("LOGIN", User(u))
Change == Job("PASSWORD", User(11))

MCWorkloads == {
  \* Reads across councils while councils come and go.
  <<As(List, 13), Close(12), Onboard(4, "p3")>>,
  <<As(List, 14), As(Job("GET", Record(12)), 14), List>>,
  <<As(Drill, 13), As(Drill, 14), As(Job("DRILL", Record(13)), 13)>>,
  <<As(List, 15), As(Drill, 12), Close(11)>>,
  \* Receipts verified together.
  <<Job("VERIFY", Receipt(12)), Job("VERIFY", Receipt(12)), Job("VERIFY", Receipt(11))>>,
  <<Job("VERIFY", Receipt(12)), Job("VERIFY", Receipt(12)), Close(12)>>,
  \* Councils of one code or prefix onboarded together; references meanwhile.
  <<Onboard(4, "p3"), Onboard(4, "p2"), Onboard(5, "p3")>>,
  <<Onboard(4, "p3"), Find("p3"), Find("p3")>>,
  <<Onboard(4, "p3"), In(Find("p3"), "w2"), In(Find("p3"), "w2")>>,
  <<Close(11), Find("p1"), In(Find("p1"), "w2")>>,
  \* Wards, departments, clients.
  <<Job("ENTER", Area(11)), Job("ENTER", Area(11)), As(Job("ENTER", Client(11)), 15)>>,
  <<Job("OFF", Area(11)), Job("EDIT", Area(11)), Job("OFF", Client(11))>>,
  <<Job("ENTER", Client(11)), As(Job("OFF", Area(11)), 17), As(Job("EDIT", Area(11)), 12)>>,
  \* Sessions.
  <<Job("REFRESH", User(11)), Job("REFRESH", User(11)), Change>>,
  <<With(Job("REFRESH", User(11)), 16), Change, Job("LOGOUT", User(11))>>,
  <<Change, Job("PROFILE", User(11)), Pass(Log(11), 1)>>,
  <<Pass(Log(11), 5), Job("DISABLE", User(11)), Job("REFRESH", User(11))>>,
  <<Log(16), Log(11), Job("DISABLE", User(16))>>,
  <<Log(17), As(Change, 17), As(With(Job("LOGOUT", User(17)), 17), 17)>>,
  <<Log(13), As(Change, 13), With(Job("REFRESH", User(13)), 1)>>
}
=============================================================================
