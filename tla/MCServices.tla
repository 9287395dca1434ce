------------------------------ MODULE MCServices -----------------------------
(* The calls that are made together in the run Services.                   *)
EXTENDS ServicesProperties

(* Calls that share something, any statement of which may throw; and calls *)
(* that only share limits, while the clock goes on.  After, Calmly: some   *)
(* calls come when others are over; none throws in the latter.             *)
After(first, ops, ticks) == [rounds |-> <<first, ops>>, ticks |-> ticks, faulty |-> TRUE]
Calmly(first, ops) == [rounds |-> <<first, ops>>, ticks |-> 0, faulty |-> FALSE]
Load(ops, ticks) == [rounds |-> <<ops>>, ticks |-> ticks, faulty |-> TRUE]
Limited(ops, ticks) == [rounds |-> <<ops>>, ticks |-> ticks, faulty |-> FALSE]

Line(kind, from, to) == [name |-> "chat", kind |-> kind, from |-> from, to |-> to]
Chat(from, to) == Line("text", from, to)
AddFriend_(from, to) == [name |-> "addFriend", from |-> from, to |-> to]
RemoveFriend_(from, to) == [name |-> "removeFriend", from |-> from, to |-> to]
Message(from) == [name |-> "send", from |-> from]
Ask(request) == [name |-> "aiChat", key |-> "ai", request |-> request]
Refine == [name |-> "refine", key |-> "refine"]
Insert(id) == [name |-> "insert", id |-> id, by |-> 1]
Update(id, by, field) == [name |-> "update", id |-> id, by |-> by, field |-> field]
Delete(id) == [name |-> "delete", id |-> id, by |-> 1]
Set(by, key) == [name |-> "set", by |-> by, key |-> key]
Like(by) == [name |-> "like", by |-> by]
List(orderBy) == [name |-> "list", orderBy |-> orderBy]
Claim(person, label) == [name |-> "claim", person |-> person, label |-> label]
Topup(person) == [name |-> "topup", person |-> person]
Move(cell) == [name |-> "move", cell |-> cell]
NewGame == [name |-> "reset"]
SignInAs(person, email, wallet) ==
    [name |-> "signIn", person |-> person, email |-> email, wallet |-> wallet]
SignIn(person, wallet) == SignInAs(person, person, wallet)

MCKeys == {<<"sender", u>> : u \in 1 .. 3} \cup {<<"pair", u>> : u \in 1 .. 3}
            \cup {<<"chat", u>> : u \in 1 .. 2}
            \cup {<<"chatPair", 1, 2>>, <<"chatPair", 2, 1>>}

MCScenarios == {
    Load(<<AddFriend_(1, 2), Chat(1, 2), Chat(2, 1), RemoveFriend_(2, 1)>>, 0),
    After(<<AddFriend_(1, 2)>>, <<Chat(1, 2), Chat(1, 2), Chat(1, 2), Chat(1, 2)>>, 2),
    Limited(<<Message(1), Message(1), Message(1)>>, 2),
    Load(<<Message(1), Message(2), Message(3)>>, 0),
    Load(<<Message(1), Message(2), [name |-> "markAllRead"]>>, 0),
    Load(<<Ask("x"), Ask("x"), Ask("y")>>, 3),
    Load(<<Refine, Refine, Refine>>, 3),
    Calmly(<<Insert("r1"), Insert("r2")>>, <<Insert("r3"), Insert("r4"), Delete("r1")>>),
    After(<<Insert("r1")>>, <<Insert("r3"), Insert("r4")>>, 0),
    Load(<<Insert("r1"), Update("r1", 1, "f"), Update("r1", 1, "g"), Delete("r1")>>, 0),
    Load(<<Insert("r1"), Update("r1", 2, "f")>>, 0),
    Load(<<Set(1, "k1"), Set(1, "k2"), Set(2, "k1"),
           [name |-> "unset", by |-> 1, key |-> "k1"]>>, 0),
    Load(<<Set(1, "k1"), Set(1, "k2"), [name |-> "clear", by |-> 1]>>, 0),
    Load(<<Like(1), Like(1), Like(1), Like(2)>>, 0),
    Load(<<SignIn("p1", Null), SignIn("p1", "w1"), SignIn("p2", "w3")>>, 0),
    After(<<SignIn("p1", Null)>>, <<SignInAs("p2", "p1", "w2"), SignIn("p2", Null)>>, 0),
    After(<<AddFriend_(1, 2)>>, <<Line("jam", 1, 2), Line("bad request", 1, 2), Chat(1, 2)>>, 0),
    Calmly(<<Insert("r1"), Insert("r2")>>, <<List("createdAt"), Delete("r1"), Insert("r3")>>),
    Calmly(<<Insert("r1"), Insert("r2")>>, <<List("f"), Update("r1", 1, "f"), Insert("r3")>>),
    After(<<Insert("r1")>>, <<List("f"), Insert("r3")>>, 0),
    After(<<SignIn("p1", "w1"), SignIn("p2", "w2")>>, <<Claim("p1", 3), Claim("p2", 3)>>, 0),
    After(<<SignIn("p1", "w1")>>, <<Claim("p1", 3), Claim("p1", 4)>>, 0),
    Calmly(<<SignIn("p1", "w1"), SignIn("p2", "w2")>>,
           <<Claim("p1", 3), Claim("p1", 4), Claim("p2", 3)>>),
    After(<<SignIn("p1", "w1")>>, <<Claim("p1", 1), SignIn("p2", Null), SignIn("p1", "w4")>>, 0),
    After(<<SignIn("p1", "w1")>>, <<Topup("p1"), Topup("p1")>>, 3),
    Limited(<<Move(1), Move(2), Move(3), Move(4)>>, 0),
    Load(<<Move(1), Move(4), Move(1), NewGame>>, 0)}

(* A board of two by two, whose lines are its rows and columns: the first  *)
(* mark wins it with its second move, or it is drawn.                      *)
MCLines == {{1, 2}, {3, 4}, {1, 3}, {2, 4}}
=============================================================================
