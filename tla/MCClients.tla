------------------------------ MODULE MCClients ------------------------------
(* The openings that TLC looks at: each page with the controls it has. *)
EXTENDS Clients

O(page, account, uses, clicks, moves, others, faults, gender, backlog) ==
    [page |-> page, stored |-> account, uses |-> uses, clicks |-> clicks, moves |-> moves,
     others |-> others, faults |-> faults, gender |-> gender, backlog |-> backlog]

MCOpenings ==
    {O("login", None, {"sign in"}, 2, 1, 0, 1, "MALE", FALSE),
     O("home", Officer, {"sign in"}, 1, 2, 0, 1, "MALE", FALSE),
     O("register", None, {"register"}, 7, 0, 0, 2, "MALE", FALSE),
     O("register", Holder, {"register", "sign in"}, 6, 1, 0, 1, "MALE", FALSE),
     O("verify", None, {"verify"}, 3, 1, 0, 2, "MALE", FALSE),
     O("org", None, {"organization"}, 3, 0, 2, 2, "MALE", FALSE),
     O("dashboard", Holder, {"consent"}, 2, 0, 0, 2, "MALE", TRUE),
     O("dashboard", Holder, {"consent"}, 1, 0, 1, 0, "MALE", TRUE),
     O("dashboard", Holder, {"consent"}, 2, 0, 1, 1, "MALE", FALSE),
     O("dashboard", Holder, {"amendments"}, 3, 0, 1, 1, "", TRUE),
     O("dashboard", Holder, {}, 0, 0, 2, 0, "MALE", TRUE),
     O("dashboard", Holder, {"documents", "amendments"}, 5, 0, 0, 2, "MALE", FALSE),
     O("dashboard", Holder, {"qr"}, 3, 0, 0, 2, "MALE", FALSE),
     O("dashboard", Holder, {"credentials"}, 3, 0, 0, 2, "MALE", FALSE),
     O("dashboard", None, {"sign in"}, 1, 0, 0, 0, "MALE", FALSE),
     O("dashboard", Recruiter, {"sign in"}, 1, 0, 0, 1, "MALE", FALSE),
     O("admin", None, {"console"}, 2, 0, 0, 1, "MALE", FALSE),
     O("admin", Officer, {"console"}, 2, 0, 0, 1, "MALE", TRUE),
     O("admin", Officer, {"console"}, 1, 1, 0, 0, "MALE", FALSE),
     O("admin", Officer, {}, 0, 0, 0, 4, "MALE", TRUE),
     O("desktop", None, {}, 0, 0, 0, 0, "MALE", FALSE)}
=============================================================================
