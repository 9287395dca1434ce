--------------------------------- MODULE Pay ---------------------------------
(***************************************************************************)
(* A jam asks for a payment; the person confirms it; the money moves.      *)
(*                                                                         *)
(* The actors: the jam, behind the SDK's bridge (packages/sdk); the host   *)
(* page with its one confirm sheet and the executor behind "approve"       *)
(* (apps/web); the payments procedures of the platform, which go on when   *)
(* the page has stopped listening; and the chain.  Each action is what     *)
(* runs between two awaits, or between two events of the page.             *)
(***************************************************************************)
EXTENDS Naturals

CONSTANTS
    Requests,       \* the calls of payUSDC that jams make, one of each
    ToFriend,       \* those that pay "@username"
    OverCap,        \* those above TX_CAP_USDC
    MayLose,        \* bound: those whose answers and receipts may be lost
    Null

VARIABLES
    told,           \* what the jam has been told of each request
    host,           \* where the host page stands with it
    txHash,         \* what its promise was resolved with
    resolver,       \* ConfirmProvider: whose promise the sheet will resolve
    active,         \* ConfirmProvider: what the sheet shows
    exec,           \* where the executor stands with it
    call,           \* where each procedure on the platform stands with it
    chain,          \* what became of each signed transfer
    lines,          \* how many chat lines record each transfer
    lost            \* history: requests of whose relays an answer was lost

vars == <<told, host, txHash, resolver, active, exec, call, chain, lines, lost>>

ASSUME PayAssumption ==
    /\ ToFriend \subseteq Requests /\ OverCap \subseteq Requests
    /\ MayLose \subseteq Requests
    /\ Null \notin Requests

-----------------------------------------------------------------------------
(* A transfer is signed with a fresh nonce, so that a request has one for  *)
(* each procedure that relays; its hash names it.                          *)
Relays == {"relayDelegated", "relay"}

Hash == Requests \X Relays

Refusals == {"REFUSED", "QUOTA_EXCEEDED", "BUSY", "USER_REJECTED"}

Answer == Refusals \cup {"ok"}

Procedures == Relays \cup {"recordTip"}

(* The awaits of a procedure: its checks up to the signature, the          *)
(* broadcast, the receipt, and those of recordTip.                         *)
CallSteps == {"idle", "checks", "submit", "receipt", "friend", "dup", "insert",
              "ok", "error"}

ExecSteps == {"idle", "recipient", "success"} \cup Procedures

Sheet == [intent : Requests, phase : {"review", "pending", "success", "error"}]

ASSUME NullIsNoSheet == Null \notin Sheet

Init ==
    /\ told = [r \in Requests |-> "unasked"]
    /\ host = [r \in Requests |-> "idle"]
    /\ txHash = [r \in Requests |-> Null]
    /\ resolver = Null /\ active = Null
    /\ exec = [r \in Requests |-> [at |-> "idle", hash |-> Null]]
    /\ call = [r \in Requests |-> [p \in Procedures |-> "idle"]]
    /\ chain = [h \in Hash |-> "unsigned"]
    /\ lines = [h \in Hash |-> 0]
    /\ lost = {}

-----------------------------------------------------------------------------
(* The jam's side of the bridge.                                           *)

Asks(r) ==
    /\ told[r] = "unasked"
    /\ told' = [told EXCEPT ![r] = "waiting"]
    /\ host' = [host EXCEPT ![r] = "asked"]
    /\ UNCHANGED <<txHash, resolver, active, exec, call, chain, lines, lost>>

(* 60 seconds, whatever the host is doing.                                 *)
TimesOut(r) ==
    /\ told[r] = "waiting"
    /\ told' = [told EXCEPT ![r] = "BRIDGE_TIMEOUT"]
    /\ UNCHANGED <<host, txHash, resolver, active, exec, call, chain, lines, lost>>

(* The host's response: of a request that timed out it is ignored.         *)
Hears(r) ==
    /\ host[r] \in Answer
    /\ told' = [told EXCEPT ![r] = IF @ = "waiting" THEN host[r] ELSE @]
    /\ host' = [host EXCEPT ![r] = "done"]
    /\ UNCHANGED <<txHash, resolver, active, exec, call, chain, lines, lost>>

-----------------------------------------------------------------------------
(* The host page: dispatch, payUSDC and the confirm sheet.                 *)

Answers(r, answer) == host' = [host EXCEPT ![r] = answer]

(* Rate limit, capability, amount.                                         *)
Refuses(r) == Answers(r, "REFUSED") /\ UNCHANGED <<resolver, active>>

Opens(r) ==
    /\ Answers(r, "confirm")
    /\ resolver' = r
    /\ active' = [intent |-> r, phase |-> "review"]

(* confirm() that lets a new intent take the sheet over.                   *)
ConfirmTakesOver(r) ==
    \/ r \in OverCap /\ Answers(r, "QUOTA_EXCEEDED") /\ UNCHANGED <<resolver, active>>
    \/ r \notin OverCap /\ Opens(r)

(* confirm(): over the cap, busy, or the sheet opens.                      *)
Confirm(r) ==
    \/ r \in OverCap /\ Answers(r, "QUOTA_EXCEEDED") /\ UNCHANGED <<resolver, active>>
    \/ /\ r \notin OverCap /\ resolver # Null
       /\ Answers(r, "BUSY") /\ UNCHANGED <<resolver, active>>
    \/ r \notin OverCap /\ resolver = Null /\ Opens(r)

Dispatch(r) ==
    /\ host[r] = "asked"
    /\ Refuses(r) \/ Confirm(r)
    /\ UNCHANGED <<told, txHash, exec, call, chain, lines, lost>>

(* settle(): payUSDC of the request whose promise it resolves goes on.     *)
Settle(answer, hash) ==
    /\ host' = IF resolver = Null THEN host ELSE [host EXCEPT ![resolver] = answer]
    /\ txHash' = IF resolver = Null THEN txHash ELSE [txHash EXCEPT ![resolver] = hash]
    /\ resolver' = Null /\ active' = Null

(* "Not now" while reviewing, or "Close" on an error.                      *)
Rejects ==
    /\ active # Null /\ active.phase \in {"review", "error"}
    /\ Settle("USER_REJECTED", Null)
    /\ UNCHANGED <<told, exec, call, chain, lines, lost>>

Shows(phase) ==
    active' = IF active = Null THEN Null ELSE [active EXCEPT !.phase = phase]

Runs(r, step) == exec' = [exec EXCEPT ![r].at = step]

Calls(r, p, step) == call' = [call EXCEPT ![r][p] = step]

(* The executor begins; the page may think that access is delegated when   *)
(* the platform does not, and the other way round.                         *)
Approves ==
    /\ active # Null /\ active.phase = "review"
    /\ LET r == active.intent IN
       \/ Runs(r, "relayDelegated") /\ Calls(r, "relayDelegated", "checks")
       \/ Runs(r, "recipient") /\ UNCHANGED call
    /\ Shows("pending")
    /\ UNCHANGED <<told, host, txHash, resolver, chain, lines, lost>>

(* An executor that threw and left the sheet as it was.                    *)
FailsUnshown(r) == Runs(r, "idle") /\ UNCHANGED <<active, call>>

(* The executor threw.                                                     *)
Fails(r) == Runs(r, "idle") /\ Shows("error") /\ UNCHANGED call

(* An executor whose hash is not kept.                                     *)
(* The executor returned the hash.                                         *)
Succeeds(r, h) ==
    /\ exec' = [exec EXCEPT ![r] = [at |-> "success", hash |-> h]]
    /\ Shows("success")
    /\ UNCHANGED call

(* 1300 ms after the success.                                              *)
Closes(r) ==
    /\ exec[r].at = "success"
    /\ Settle("ok", exec[r].hash)
    /\ Runs(r, "idle")
    /\ UNCHANGED <<told, call, chain, lines, lost>>

-----------------------------------------------------------------------------
(* The executor, between its awaits.                                       *)

(* The recipient is looked up and the authorization signed in the browser, *)
(* or one of the two throws.                                               *)
Signs(r) ==
    /\ exec[r].at = "recipient"
    /\ \/ Runs(r, "relay") /\ Calls(r, "relay", "checks") /\ UNCHANGED active
       \/ Fails(r)
    /\ UNCHANGED <<told, host, txHash, resolver, chain, lines, lost>>

(* The relay's hash: of a browser's payment to a friend the executor has   *)
(* the platform write a chat line.                                         *)
Relayed(r, p) ==
    IF p = "relay" /\ r \in ToFriend
    THEN Runs(r, "recordTip") /\ Calls(r, "recordTip", "friend") /\ UNCHANGED active
    ELSE Succeeds(r, <<r, p>>)

(* A relay that threw: a delegated one falls through to the browser's.     *)
FallsThrough(r, p) ==
    \/ p = "relayDelegated" /\ Runs(r, "recipient") /\ UNCHANGED <<active, call>>
    \/ p = "relay" /\ Fails(r)

RelayAnswered(r, p) ==
    /\ exec[r].at = p
    /\ \/ call[r][p] = "ok" /\ Relayed(r, p)
       \/ call[r][p] = "error" /\ FallsThrough(r, p)
    /\ UNCHANGED <<told, host, txHash, resolver, chain, lines, lost>>

(* The connection fails before the answer is in, whatever the platform has *)
(* done of the call, or has still to do.                                   *)
RelayLost(r, p) ==
    /\ r \in MayLose
    /\ exec[r].at = p /\ FallsThrough(r, p)
    /\ lost' = lost \cup {r}
    /\ UNCHANGED <<told, host, txHash, resolver, chain, lines>>

(* An executor that lets a failed recordTip throw.                         *)
TipAnsweredOrThrows(r) ==
    /\ exec[r].at = "recordTip"
    /\ \/ call[r].recordTip = "ok" /\ Succeeds(r, <<r, "relay">>)
       \/ r \in MayLose /\ Fails(r)
    /\ UNCHANGED <<told, host, txHash, resolver, chain, lines, lost>>

(* The line is best-effort.                                                *)
TipAnswered(r) ==
    /\ exec[r].at = "recordTip"
    /\ call[r].recordTip = "ok" \/ r \in MayLose
    /\ Succeeds(r, <<r, "relay">>)
    /\ UNCHANGED <<told, host, txHash, resolver, chain, lines, lost>>

-----------------------------------------------------------------------------
(* The procedures of the platform.                                         *)

(* Wallet, delegation, cap, recipient, expiry and the delegated signature. *)
Checks(r, p) ==
    /\ call[r][p] = "checks"
    /\ \E step \in {"submit", "error"} : Calls(r, p, step)
    /\ UNCHANGED <<told, host, txHash, resolver, active, exec, chain, lines, lost>>

(* writeContract: refused, or broadcast.                                   *)
Submits(r, p) ==
    /\ call[r][p] = "submit"
    /\ \/ Calls(r, p, "error") /\ UNCHANGED chain
       \/ Calls(r, p, "receipt") /\ chain' = [chain EXCEPT ![<<r, p>>] = "sent"]
    /\ UNCHANGED <<told, host, txHash, resolver, active, exec, lines, lost>>

(* The node broadcast it and its answer is lost.                           *)
SubmitLost(r, p) ==
    /\ r \in MayLose
    /\ call[r][p] = "submit" /\ Calls(r, p, "error")
    /\ chain' = [chain EXCEPT ![<<r, p>>] = "sent"]
    /\ lost' = lost \cup {r}
    /\ UNCHANGED <<told, host, txHash, resolver, active, exec, lines>>

(* A block holds it; the payer may have run out of USDC since.             *)
Mined(h) ==
    /\ chain[h] = "sent"
    /\ \E fate \in {"landed", "reverted"} : chain' = [chain EXCEPT ![h] = fate]
    /\ UNCHANGED <<told, host, txHash, resolver, active, exec, call, lines, lost>>

(* What a relay does once submit has returned its hash.                    *)
AfterRelay(r, p) ==
    Calls(r, p, IF p = "relayDelegated" /\ r \in ToFriend THEN "friend" ELSE "ok")

(* waitForTransactionReceipt resolves, of a reverted transaction too.      *)
Receipt(r, p) ==
    /\ call[r][p] = "receipt"
    /\ chain[<<r, p>>] \in {"landed", "reverted"}
    /\ AfterRelay(r, p)
    /\ UNCHANGED <<told, host, txHash, resolver, active, exec, chain, lines, lost>>

(* It gives up, or the node cannot be reached.                             *)
ReceiptLost(r, p) ==
    /\ r \in MayLose
    /\ call[r][p] = "receipt" /\ Calls(r, p, "error")
    /\ lost' = lost \cup {r}
    /\ UNCHANGED <<told, host, txHash, resolver, active, exec, chain, lines>>

(* Where a chat line belongs to: the relay that made it, or the browser's. *)
Records(p) == IF p = "relayDelegated" THEN "relayDelegated" ELSE "relay"

(* recordTip of the chat service: they are friends, the hash is new, the   *)
(* line.                                                                   *)
TipFriend(r, p) ==
    /\ call[r][p] = "friend" /\ Calls(r, p, "dup")
    /\ UNCHANGED <<told, host, txHash, resolver, active, exec, chain, lines, lost>>

TipDup(r, p) ==
    /\ call[r][p] = "dup"
    /\ Calls(r, p, IF lines[<<r, Records(p)>>] > 0 THEN "ok" ELSE "insert")
    /\ UNCHANGED <<told, host, txHash, resolver, active, exec, chain, lines, lost>>

TipInsert(r, p) ==
    /\ call[r][p] = "insert" /\ Calls(r, p, "ok")
    /\ lines' = [lines EXCEPT ![<<r, Records(p)>>] = @ + 1]
    /\ UNCHANGED <<told, host, txHash, resolver, active, exec, chain, lost>>

(* A relay whose recordTip is not caught.                                  *)
TipThrowsOut(r, p) ==
    /\ call[r][p] \in {"friend", "dup", "insert"} /\ Calls(r, p, "error")
    /\ UNCHANGED <<told, host, txHash, resolver, active, exec, chain, lines, lost>>

(* They are no friends, or a statement fails: both callers swallow it.     *)
TipThrows(r, p) ==
    /\ call[r][p] \in {"friend", "dup", "insert"} /\ Calls(r, p, "ok")
    /\ UNCHANGED <<told, host, txHash, resolver, active, exec, chain, lines, lost>>

-----------------------------------------------------------------------------
Serves(r, p) ==
    \/ p \in Relays /\ (Checks(r, p) \/ Submits(r, p) \/ Receipt(r, p))
    \/ TipFriend(r, p) \/ TipDup(r, p) \/ TipInsert(r, p) \/ TipThrows(r, p)

Executes(r) ==
    \/ Signs(r) \/ TipAnswered(r) \/ Closes(r)
    \/ \E p \in Relays : RelayAnswered(r, p)

Faults(r) == \E p \in Relays : RelayLost(r, p) \/ SubmitLost(r, p) \/ ReceiptLost(r, p)

Next ==
    \/ \E r \in Requests : Asks(r) \/ TimesOut(r) \/ Hears(r) \/ Dispatch(r)
    \/ Rejects \/ Approves
    \/ \E r \in Requests : Executes(r) \/ Faults(r)
    \/ \E r \in Requests, p \in Procedures : Serves(r, p)
    \/ \E h \in Hash : Mined(h)

Spec == Init /\ [][Next]_vars

(* Timers ring, pages and servers run, blocks are made; nobody has to tap. *)
Fairness ==
    /\ \A r \in Requests :
        /\ WF_vars(TimesOut(r)) /\ WF_vars(Executes(r))
        /\ \A p \in Procedures : WF_vars(Serves(r, p))
    /\ \A h \in Hash : WF_vars(Mined(h))

FairSpec == Spec /\ Fairness
=============================================================================
