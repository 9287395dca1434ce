-------------------------------- MODULE Profile ------------------------------
(***************************************************************************)
(* What a person does with the own profile (routers/profile.ts): claiming  *)
(* a username, with the ENS name minted for it, and the daily top-up.      *)
(***************************************************************************)
EXTENDS People

VARIABLES
    ens,            \* the registry on chain: label -> the wallet it resolves to
    topups          \* history: the transfers of top-ups that landed

profileVars == <<users, ens, topups>>

ProfileInit == ens = <<>> /\ topups = <<>>

Me(c) == call[c].op.person

(* requireAuth reads the person, who signs in by a call of the own first.  *)
ClaimBegins(c) ==
    /\ At(c, "claim", "begin") /\ Me(c) \in DOMAIN users
    /\ \/ call[c].op.label \in Reserved /\ Returns(c, "BAD_REQUEST")
       \/ call[c].op.label \notin Reserved /\ Awaits(c, "free", users[Me(c)])
    /\ UNCHANGED profileVars

TakenByAnother(c) ==
    \E p \in DOMAIN users \ {Me(c)} : users[p].suffix = call[c].op.label

(* Who has no wallet gets no ENS name.                                     *)
ClaimLooks(c) ==
    /\ At(c, "claim", "free")
    /\ \/ TakenByAnother(c) /\ Returns(c, "TAKEN")
       \/ /\ ~TakenByAnother(c)
          /\ Awaits(c, IF call[c].saw.wallet = Null THEN "row" ELSE "mint", call[c].saw)
    /\ UNCHANGED profileVars

(* setSubname points the label to the wallet, wherever it pointed before.  *)
Mints(c) ==
    ens' = [l \in DOMAIN ens \cup {call[c].op.label} |->
              IF l = call[c].op.label THEN call[c].saw.wallet ELSE ens[l]]

Named(c) == [call[c].saw EXCEPT !.ensName = call[c].op.label]

(* A mint that is taken for done although it failed.                       *)
ClaimMintsAnyway(c) ==
    /\ At(c, "claim", "mint") /\ Awaits(c, "row", Named(c))
    /\ Mints(c) \/ (faulty /\ UNCHANGED ens)
    /\ UNCHANGED <<users, topups>>

(* Best effort: an error, of a mint that landed or not, is caught, and the *)
(* profile keeps the ENS name it had.                                      *)
ClaimMints(c) ==
    /\ At(c, "claim", "mint")
    /\ \/ Mints(c) /\ Awaits(c, "row", Named(c))
       \/ faulty /\ (Mints(c) \/ UNCHANGED ens) /\ Awaits(c, "row", call[c].saw)
    /\ UNCHANGED <<users, topups>>

(* The username is unique.                                                 *)
ClaimWrites(c) ==
    /\ At(c, "claim", "row")
    /\ \/ TakenByAnother(c) /\ Returns(c, "CONFLICT") /\ UNCHANGED users
       \/ /\ ~TakenByAnother(c) /\ Returns(c, "ok")
          /\ users' = [users EXCEPT ![Me(c)].suffix = call[c].op.label,
                                    ![Me(c)].ensName = call[c].saw.ensName]
    /\ UNCHANGED <<ens, topups>>

-----------------------------------------------------------------------------
(* The last top-up is that of the person as requireAuth has read it.       *)
TopupLooks(c) ==
    /\ At(c, "topup", "begin") /\ Me(c) \in DOMAIN users
    /\ LET u == users[Me(c)]
           cools == u.lastTopupAt # Null /\ now - u.lastTopupAt < DayLength IN
       \/ cools /\ Returns(c, "QUOTA_EXCEEDED")
       \/ ~cools /\ u.wallet = Null /\ Returns(c, "BAD_REQUEST")
       \/ ~cools /\ u.wallet # Null /\ Awaits(c, "transfer", Null)
    /\ UNCHANGED profileVars

(* A transfer may land whose receipt is lost.                              *)
TopupPays(c) ==
    /\ At(c, "topup", "transfer")
    /\ Awaits(c, "row", Null) \/ Throws(c)
    /\ topups' = Append(topups, [call |-> c, at |-> now])
    /\ UNCHANGED <<users, ens>>

TopupWrites(c) ==
    /\ At(c, "topup", "row") /\ Returns(c, "ok")
    /\ users' = [users EXCEPT ![Me(c)].lastTopupAt = now]
    /\ UNCHANGED <<ens, topups>>

ProfileStep(c) ==
    /\ \/ ClaimBegins(c) \/ ClaimLooks(c) \/ ClaimMints(c) \/ ClaimWrites(c)
       \/ TopupLooks(c) \/ TopupPays(c) \/ TopupWrites(c)
    /\ UNCHANGED <<limiterVars, friendship, directMessage, appLike>>
=============================================================================
