---------------------------- MODULE PayProperties ----------------------------
(* What a jam, the person who confirms and the payee may rely on.          *)
EXTENDS Pay, FiniteSets

TypeOK ==
    /\ told \in [Requests -> {"unasked", "waiting", "BRIDGE_TIMEOUT"} \cup Answer]
    /\ host \in [Requests -> {"idle", "asked", "confirm", "done"} \cup Answer]
    /\ txHash \in [Requests -> Hash \cup {Null}]
    /\ resolver \in Requests \cup {Null}
    /\ active \in Sheet \cup {Null}
    /\ exec \in [Requests -> [at : ExecSteps \ {"success"}, hash : Hash \cup {Null}]
                            \cup [at : {"success"}, hash : Hash]]
    /\ call \in [Requests -> [Procedures -> CallSteps]]
    /\ chain \in [Hash -> {"unsigned", "sent", "landed", "reverted"}]
    /\ lines \in [Hash -> Nat]
    /\ lost \subseteq Requests

Sent(r) == {h \in {r} \X Relays : chain[h] # "unsigned"}

(* One tap on "approve" sends one transfer: executor and procedures go on  *)
(* by errors, and an error after the broadcast, that of the chat line for  *)
(* one, must not be taken for a payment that failed.  It is one as long as *)
(* no answer and no receipt is lost (pay-executor.ts:58, payments.ts:229). *)
OnePaymentUnlessLost == \A r \in Requests : Cardinality(Sent(r)) > 1 => r \in lost

(* The same of every payment: "so a payment never breaks because of        *)
(* delegation" (pay-executor.ts:57).  False: Pay_v_double.                 *)
OnePaymentPerApproval == \A r \in Requests : Cardinality(Sent(r)) <= 1

(* A jam that is told of a refusal, or of a request that never reached the *)
(* person, has received nothing, unless an answer was lost                 *)
(* (host-handlers.ts:114, confirm-sheet.tsx:165 "Nothing was sent").       *)
RefusedIsUnpaid ==
    \A r \in Requests : told[r] \in Refusals => Sent(r) = {} \/ r \in lost

(* A jam that is told a hash is told that of a transfer of its own request *)
(* that is in a block: never that of another jam's, whose sheet was up at  *)
(* the time (confirm-provider.tsx:82), nor one that is only broadcast.  So *)
(* is a chat line that of a transfer to that friend, which has no other    *)
(* line (chat-service.ts:320).                                             *)
ToldIsMined ==
    LET InBlock(h) == chain[h] \in {"landed", "reverted"} IN
    /\ \A r \in Requests : told[r] = "ok" =>
        \E h \in {r} \X Relays : txHash[r] = h /\ InBlock(h)
    /\ \A h \in Hash : lines[h] > 0 =>
        h[1] \in ToFriend /\ InBlock(h) /\ lines[h] = 1

Locked == active # Null /\ active.phase \in {"pending", "success"}

(* A call of the SDK settles, whether or not the host ever answers         *)
(* (sdk/index.ts:218); and the sheet, locked while money moves, unlocks by *)
(* itself or shows an error that can be closed: the next payment is not    *)
(* "Another confirmation is in progress" for ever                          *)
(* (confirm-provider.tsx:92).                                              *)
NobodyWaitsForEver ==
    /\ \A r \in Requests : told[r] = "waiting" ~> told[r] # "waiting"
    /\ Locked ~> ~Locked
=============================================================================
