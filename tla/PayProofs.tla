------------------------------ MODULE PayProofs ------------------------------
(***************************************************************************)
(* Theorems about module Pay, for every set of requests: a tap on          *)
(* "approve" sends one transfer unless an answer was lost, and what a jam  *)
(* is told of its payment is true.                                         *)
(***************************************************************************)
EXTENDS PayProperties, FiniteSetTheorems, TLAPS

InBlock(h) == chain[h] \in {"landed", "reverted"}

(* Nothing is under way that could still send a transfer of the request,   *)
(* nor has anything sent one; unless an answer was lost.                   *)
RelayQuiet(r, p) == r \in lost \/ call[r][p] \in {"idle", "error"}

Quiet(r) == \A p \in Relays : RelayQuiet(r, p)

Clean(r) == exec[r].at = "idle" /\ \A p \in Procedures : call[r][p] = "idle"

(* The sheet is that of the request whose promise it resolves, and its     *)
(* phase says where the executor is.                                       *)
SheetInv ==
    /\ active = Null => resolver = Null
    /\ active # Null =>
        LET r == active.intent IN
        /\ resolver = r /\ host[r] = "confirm"
        /\ active.phase = "review" => Clean(r)
        /\ active.phase = "pending" => exec[r].at \notin {"idle", "success"}
        /\ active.phase = "success" => exec[r].at = "success"
        /\ active.phase = "error" => exec[r].at = "idle" /\ Quiet(r)

(* The page moves a request along one path, and tells the jam the outcome. *)
HostInv(r) ==
    /\ told[r] = "unasked" => host[r] = "idle"
    /\ told[r] \in Answer => host[r] = "done"
    /\ host[r] \in {"idle", "asked"} => Clean(r)
    /\ exec[r].at # "idle" => resolver = r
    /\ told[r] \in Refusals \/ host[r] \in Refusals => Quiet(r)
    /\ told[r] = "ok" \/ host[r] = "ok" =>
        txHash[r] \in {r} \X Relays /\ InBlock(txHash[r])

(* The executor calls one procedure after the other: the browser's relay   *)
(* only when the delegated one sent nothing, recordTip only after it.      *)
ExecInv(r) ==
    /\ exec[r].at \in {"relayDelegated", "recipient"} => call[r]["relay"] = "idle"
    /\ exec[r].at \in {"recipient", "relay"} => RelayQuiet(r, "relayDelegated")
    /\ exec[r].at \in {"relayDelegated", "recipient", "relay"} =>
        call[r]["recordTip"] = "idle"
    /\ exec[r].at = "recordTip" => call[r]["relay"] = "ok"
    /\ exec[r].at = "success" =>
        exec[r].hash \in {r} \X Relays /\ InBlock(exec[r].hash)
    /\ call[r]["relay"] # "idle" => RelayQuiet(r, "relayDelegated")

(* What a relay's progress says of its transfer.                           *)
RelayInv(r, p) ==
    /\ call[r][p] \in {"idle", "checks", "submit"} => chain[<<r, p>>] = "unsigned"
    /\ call[r][p] = "receipt" => chain[<<r, p>>] # "unsigned"
    /\ call[r][p] \in {"friend", "dup", "insert", "ok"} => InBlock(<<r, p>>)
    /\ call[r][p] = "error" => chain[<<r, p>>] = "unsigned" \/ r \in lost

(* A line has one writer, which writes it once, when the transfer is mined. *)
LineInv(r) ==
    /\ call[r]["relay"] \notin {"friend", "dup", "insert"}
    /\ call[r]["recordTip"] \in {"idle", "friend", "dup", "insert", "ok"}
    /\ call[r]["recordTip"] # "idle" => r \in ToFriend /\ call[r]["relay"] = "ok"
    /\ call[r]["relayDelegated"] \in {"friend", "dup", "insert"} => r \in ToFriend
    /\ call[r]["recordTip"] # "ok" => lines[<<r, "relay">>] = 0
    /\ call[r]["relayDelegated"] # "ok" => lines[<<r, "relayDelegated">>] = 0
    /\ \A p \in Relays : lines[<<r, p>>] > 0 =>
        r \in ToFriend /\ InBlock(<<r, p>>) /\ lines[<<r, p>>] = 1

PayInv ==
    /\ TypeOK
    /\ SheetInv
    /\ \A r \in Requests :
        HostInv(r) /\ ExecInv(r) /\ LineInv(r) /\ \A p \in Relays : RelayInv(r, p)

LEMMA InitInv == ASSUME Init PROVE PayInv
<1> USE PayAssumption
<1>1. TypeOK
  BY DEF Init, TypeOK, Hash, Procedures, Relays, CallSteps, ExecSteps
<1>2. SheetInv
  BY DEF Init, SheetInv
<1>3. ASSUME NEW r \in Requests
      PROVE  HostInv(r) /\ ExecInv(r) /\ LineInv(r) /\ \A p \in Relays : RelayInv(r, p)
  BY DEF Init, HostInv, ExecInv, LineInv, RelayInv, Clean, Hash, Procedures, Relays,
         Answer, Refusals
<1> QED BY <1>1, <1>2, <1>3 DEF PayInv

(* What the three verbs of the actions change.                             *)
LEMMA CallsDoes ==
    ASSUME TypeOK, NEW r \in Requests, NEW p \in Procedures, NEW step \in CallSteps,
           Calls(r, p, step)
    PROVE  /\ call' \in [Requests -> [Procedures -> CallSteps]]
           /\ \A q \in Requests, o \in Procedures :
                call'[q][o] = IF q = r /\ o = p THEN step ELSE call[q][o]
BY DEF TypeOK, Calls

LEMMA RunsDoes ==
    ASSUME TypeOK, NEW r \in Requests, NEW step \in ExecSteps \ {"success"},
           Runs(r, step)
    PROVE  /\ exec' \in [Requests -> [at : ExecSteps \ {"success"}, hash : Hash \cup {Null}]
                            \cup [at : {"success"}, hash : Hash]]
           /\ exec'[r].at = step
           /\ \A q \in Requests \ {r} : exec'[q] = exec[q]
BY DEF TypeOK, Runs

LEMMA ShowsDoes ==
    ASSUME TypeOK, NEW phase \in {"review", "pending", "success", "error"}, Shows(phase)
    PROVE  /\ active' \in Sheet \cup {Null}
           /\ active = Null => active' = Null
           /\ active # Null => /\ active' # Null /\ active'.phase = phase
                               /\ active'.intent = active.intent
BY NullIsNoSheet DEF TypeOK, Shows, Sheet

LEMMA SucceedsDoes ==
    ASSUME TypeOK, NEW r \in Requests, NEW h \in Hash, Succeeds(r, h)
    PROVE  /\ exec' \in [Requests -> [at : ExecSteps \ {"success"}, hash : Hash \cup {Null}]
                            \cup [at : {"success"}, hash : Hash]]
           /\ exec'[r].at = "success" /\ exec'[r].hash = h
           /\ \A q \in Requests \ {r} : exec'[q] = exec[q]
           /\ Shows("success") /\ call' = call
BY DEF TypeOK, Succeeds

LEMMA StepNames ==
    /\ CallSteps = {"idle", "checks", "submit", "receipt", "friend", "dup", "insert",
                    "ok", "error"}
    /\ ExecSteps = {"idle", "recipient", "success", "relayDelegated", "relay", "recordTip"}
    /\ Procedures = {"relayDelegated", "relay", "recordTip"}
    /\ Relays = {"relayDelegated", "relay"}
    /\ \A r \in Requests, p \in Relays : <<r, p>> \in Hash
BY DEF CallSteps, ExecSteps, Procedures, Relays, Hash

LEMMA StepType == ASSUME TypeOK, [Next]_vars PROVE TypeOK'
<1> USE PayAssumption, StepNames
<1>1. ASSUME NEW r \in Requests, Asks(r) PROVE TypeOK'
  BY <1>1 DEF Asks, TypeOK
<1>2. ASSUME NEW r \in Requests, TimesOut(r) PROVE TypeOK'
  BY <1>2 DEF TimesOut, TypeOK
<1>3. ASSUME NEW r \in Requests, Hears(r) PROVE TypeOK'
  BY <1>3 DEF Hears, TypeOK
<1>4. ASSUME NEW r \in Requests, Dispatch(r) PROVE TypeOK'
  <2>1. CASE Refuses(r)
    BY <1>4, <2>1 DEF Dispatch, Refuses, Answers, Answer, Refusals, TypeOK
  <2>2. CASE Confirm(r)
    <3>1. [intent |-> r, phase |-> "review"] \in Sheet
      BY DEF Sheet
    <3> QED BY <1>4, <2>2, <3>1 DEF Dispatch, Confirm, Opens, Answers, Answer, Refusals, TypeOK
  <2> QED BY <1>4, <2>1, <2>2 DEF Dispatch
<1>5. ASSUME Rejects PROVE TypeOK'
  BY <1>5 DEF Rejects, Settle, Answer, Refusals, TypeOK
<1>6. ASSUME Approves PROVE TypeOK'
  <2>1. active.intent \in Requests
    BY <1>6 DEF Approves, TypeOK, Sheet
  <2>2. PICK r \in Requests : \/ Runs(r, "relayDelegated") /\ Calls(r, "relayDelegated", "checks")
                              \/ Runs(r, "recipient") /\ UNCHANGED call
    BY <1>6, <2>1 DEF Approves
  <2>3. active' \in Sheet \cup {Null}
    BY <1>6, ShowsDoes DEF Approves
  <2>4. /\ exec' \in [Requests -> [at : ExecSteps \ {"success"}, hash : Hash \cup {Null}]
                            \cup [at : {"success"}, hash : Hash]]
        /\ call' \in [Requests -> [Procedures -> CallSteps]]
    BY <2>2, RunsDoes, CallsDoes DEF TypeOK
  <2> QED BY <1>6, <2>3, <2>4 DEF Approves, TypeOK
<1>7. ASSUME NEW r \in Requests, Executes(r) PROVE TypeOK'
  <2> DEFINE X == [Requests -> [at : ExecSteps \ {"success"}, hash : Hash \cup {Null}]
                            \cup [at : {"success"}, hash : Hash]]
             C == [Requests -> [Procedures -> CallSteps]]
  <2>1. CASE Signs(r)
    <3>1. exec' \in X /\ call' \in C /\ active' \in Sheet \cup {Null}
      BY <2>1, RunsDoes, CallsDoes, ShowsDoes DEF Signs, Fails, TypeOK
    <3> QED BY <2>1, <3>1 DEF Signs, TypeOK
  <2>2. CASE TipAnswered(r)
    <3>1. exec' \in X /\ call' \in C /\ active' \in Sheet \cup {Null}
      BY <2>2, SucceedsDoes, ShowsDoes DEF TipAnswered, TypeOK
    <3> QED BY <2>2, <3>1 DEF TipAnswered, TypeOK
  <2>3. CASE Closes(r)
    <3>1. exec' \in X
      BY <2>3, RunsDoes DEF Closes
    <3>2. exec[r].hash \in Hash
      BY <2>3 DEF Closes, TypeOK
    <3> QED BY <2>3, <3>1, <3>2 DEF Closes, Settle, Answer, TypeOK
  <2>4. ASSUME NEW p \in Relays, RelayAnswered(r, p) PROVE TypeOK'
    <3>1. exec' \in X /\ call' \in C /\ active' \in Sheet \cup {Null}
      <4>1. CASE Relayed(r, p)
        <5>1. CASE p = "relay" /\ r \in ToFriend
          BY <4>1, <5>1, RunsDoes, CallsDoes DEF Relayed, TypeOK
        <5>2. CASE ~(p = "relay" /\ r \in ToFriend)
          <6>1. Succeeds(r, <<r, p>>)
            BY <4>1, <5>2 DEF Relayed
          <6>2. exec' \in X /\ Shows("success") /\ call' = call
            BY <6>1, SucceedsDoes
          <6> QED BY <6>2, ShowsDoes DEF TypeOK
        <5> QED BY <5>1, <5>2
      <4>2. CASE FallsThrough(r, p)
        BY <4>2, RunsDoes, ShowsDoes DEF FallsThrough, Fails, TypeOK
      <4> QED BY <2>4, <4>1, <4>2 DEF RelayAnswered
    <3> QED BY <2>4, <3>1 DEF RelayAnswered, TypeOK
  <2> QED BY <1>7, <2>1, <2>2, <2>3, <2>4 DEF Executes
<1>8. ASSUME NEW r \in Requests, Faults(r) PROVE TypeOK'
  <2>1. PICK p \in Relays : RelayLost(r, p) \/ SubmitLost(r, p) \/ ReceiptLost(r, p)
    BY <1>8 DEF Faults
  <2>2. CASE RelayLost(r, p)
    <3>1. /\ exec' \in [Requests -> [at : ExecSteps \ {"success"}, hash : Hash \cup {Null}]
                            \cup [at : {"success"}, hash : Hash]]
          /\ call' = call /\ active' \in Sheet \cup {Null}
      BY <2>2, RunsDoes, ShowsDoes DEF RelayLost, FallsThrough, Fails, TypeOK
    <3> QED BY <2>2, <3>1 DEF RelayLost, TypeOK
  <2>3. CASE SubmitLost(r, p) \/ ReceiptLost(r, p)
    <3>1. call' \in [Requests -> [Procedures -> CallSteps]]
      BY <2>3, CallsDoes DEF SubmitLost, ReceiptLost
    <3> QED BY <2>3, <3>1 DEF SubmitLost, ReceiptLost, TypeOK
  <2> QED BY <2>1, <2>2, <2>3
<1>9. ASSUME NEW r \in Requests, NEW p \in Procedures, Serves(r, p) PROVE TypeOK'
  <2>1. CASE p \in Relays /\ (Checks(r, p) \/ Submits(r, p) \/ Receipt(r, p))
    <3>1. call' \in [Requests -> [Procedures -> CallSteps]]
      BY <2>1, CallsDoes DEF Checks, Submits, Receipt, AfterRelay
    <3> QED BY <2>1, <3>1 DEF Checks, Submits, Receipt, TypeOK
  <2>2. CASE TipFriend(r, p) \/ TipDup(r, p) \/ TipInsert(r, p) \/ TipThrows(r, p)
    <3>1. call' \in [Requests -> [Procedures -> CallSteps]]
      BY <2>2, CallsDoes DEF TipFriend, TipDup, TipInsert, TipThrows
    <3>2. lines' \in [Hash -> Nat]
      <4>1. CASE TipInsert(r, p)
        <5>1. <<r, Records(p)>> \in Hash
          BY DEF Records
        <5>2. lines[<<r, Records(p)>>] + 1 \in Nat
          BY <5>1 DEF TypeOK
        <5> QED BY <4>1, <5>1, <5>2 DEF TipInsert, TypeOK
      <4> QED BY <2>2, <4>1 DEF TipFriend, TipDup, TipThrows, TypeOK
    <3> QED BY <2>2, <3>1, <3>2 DEF TipFriend, TipDup, TipInsert, TipThrows, TypeOK
  <2> QED BY <1>9, <2>1, <2>2 DEF Serves
<1>10. ASSUME NEW h \in Hash, Mined(h) PROVE TypeOK'
  BY <1>10 DEF Mined, TypeOK
<1>11. CASE UNCHANGED vars
  BY <1>11 DEF vars, TypeOK
<1> QED BY <1>1, <1>2, <1>3, <1>4, <1>5, <1>6, <1>7, <1>8, <1>9, <1>10, <1>11 DEF Next

-----------------------------------------------------------------------------
(* Everything of PayInv but the types, of one request.                     *)
RequestInv(r) ==
    HostInv(r) /\ ExecInv(r) /\ LineInv(r) /\ \A p \in Relays : RelayInv(r, p)

(* The page's own actions leave the platform's part alone.                 *)
LEMMA PlatformFrame ==
    ASSUME PayInv, NEW q \in Requests, UNCHANGED <<call, chain, lines>>,
           lost \subseteq lost'
    PROVE  LineInv(q)' /\ \A p \in Relays : RelayInv(q, p)'
BY DEF PayInv, LineInv, RelayInv, InBlock

LEMMA ExecFrame ==
    ASSUME PayInv, NEW q \in Requests, UNCHANGED <<exec, call, chain, lost>>
    PROVE  ExecInv(q)'
BY DEF PayInv, ExecInv, RelayQuiet, InBlock

LEMMA PageStep ==
    ASSUME PayInv, TypeOK',
           \/ \E r \in Requests : Asks(r) \/ TimesOut(r) \/ Hears(r) \/ Dispatch(r)
           \/ Rejects
    PROVE  SheetInv' /\ \A q \in Requests : RequestInv(q)'
<1>0. UNCHANGED <<exec, call, chain, lines, lost>>
  BY DEF Asks, TimesOut, Hears, Dispatch, Rejects
<1>1. ASSUME NEW r \in Requests, Asks(r) PROVE SheetInv' /\ \A q \in Requests : HostInv(q)'
  <2>1. host[r] = "idle" /\ Clean(r)
    BY <1>1 DEF Asks, PayInv, HostInv
  <2>2. SheetInv'
    BY <1>1, <2>1 DEF Asks, PayInv, TypeOK, SheetInv, Sheet, Clean, Quiet, RelayQuiet
  <2>3. ASSUME NEW q \in Requests PROVE HostInv(q)'
    BY <1>1, <2>1, <2>3 DEF Asks, PayInv, TypeOK, HostInv, Clean, Quiet, RelayQuiet,
                            Answer, Refusals, InBlock
  <2> QED BY <2>2, <2>3
<1>2. ASSUME NEW r \in Requests, TimesOut(r) PROVE SheetInv' /\ \A q \in Requests : HostInv(q)'
  <2>1. SheetInv'
    BY <1>2 DEF TimesOut, PayInv, TypeOK, SheetInv, Sheet, Clean, Quiet, RelayQuiet
  <2>2. ASSUME NEW q \in Requests PROVE HostInv(q)'
    BY <1>2, <2>2 DEF TimesOut, PayInv, TypeOK, HostInv, Clean, Quiet, RelayQuiet,
                            Answer, Refusals, InBlock
  <2> QED BY <2>1, <2>2
<1>3. ASSUME NEW r \in Requests, Hears(r) PROVE SheetInv' /\ \A q \in Requests : HostInv(q)'
  <2>1. SheetInv'
    BY <1>3 DEF Hears, PayInv, TypeOK, SheetInv, Sheet, Clean, Quiet, RelayQuiet, Answer, Refusals
  <2>2. ASSUME NEW q \in Requests PROVE HostInv(q)'
    BY <1>3, <2>2 DEF Hears, PayInv, TypeOK, HostInv, Clean, Quiet, RelayQuiet,
                            Answer, Refusals, InBlock
  <2> QED BY <2>1, <2>2
<1>4. ASSUME NEW r \in Requests, Dispatch(r) PROVE SheetInv' /\ \A q \in Requests : HostInv(q)'
  <2>1. Clean(r) /\ Quiet(r) /\ host[r] = "asked"
    BY <1>4, StepNames DEF Dispatch, PayInv, HostInv, Clean, Quiet, RelayQuiet
  <2>2. ASSUME NEW answer \in Refusals, Answers(r, answer), UNCHANGED <<resolver, active>>
        PROVE  SheetInv' /\ \A q \in Requests : HostInv(q)'
    <3>1. SheetInv'
      BY <1>4, <2>1, <2>2 DEF Dispatch, Answers, PayInv, TypeOK, SheetInv, Sheet, Clean,
                              Quiet, RelayQuiet
    <3>2. ASSUME NEW q \in Requests PROVE HostInv(q)'
      BY <1>4, <2>1, <2>2, <3>2 DEF Dispatch, Answers, PayInv, TypeOK, HostInv, Clean,
                              Quiet, RelayQuiet, Answer, Refusals, InBlock
    <3> QED BY <3>1, <3>2
  <2>3. ASSUME resolver = Null, Opens(r)
        PROVE  SheetInv' /\ \A q \in Requests : HostInv(q)'
    <3>1. active' # Null /\ active'.intent = r /\ active'.phase = "review"
          /\ resolver' = r /\ host'[r] = "confirm"
      BY <2>3, NullIsNoSheet DEF Opens, Answers, Sheet, PayInv, TypeOK
    <3>2. SheetInv'
      BY <1>4, <2>1, <3>1, PayAssumption DEF Dispatch, SheetInv, Clean
    <3>3. ASSUME NEW q \in Requests PROVE HostInv(q)'
      BY <1>4, <2>1, <2>3, <3>1, <3>3, PayAssumption DEF Dispatch, Opens, Answers, PayInv,
             TypeOK, HostInv, Clean, Quiet, RelayQuiet, Answer, Refusals, InBlock
    <3> QED BY <3>2, <3>3
  <2> QED BY <1>4, <2>2, <2>3 DEF Dispatch, Refuses, Confirm, Refusals
<1>5. ASSUME Rejects PROVE SheetInv' /\ \A q \in Requests : HostInv(q)'
  <2> DEFINE r == active.intent
  <2>1. r \in Requests /\ resolver = r /\ exec[r].at = "idle" /\ Quiet(r) /\ r # Null
    BY <1>5, StepNames, PayAssumption
    DEF Rejects, PayInv, TypeOK, SheetInv, Sheet, Clean, Quiet, RelayQuiet
  <2>2. /\ host' = [host EXCEPT ![r] = "USER_REJECTED"]
        /\ txHash' = [txHash EXCEPT ![r] = Null]
        /\ resolver' = Null /\ active' = Null /\ told' = told
        /\ host[r] = "confirm"
    BY <1>5, <2>1 DEF Rejects, Settle, PayInv, SheetInv
  <2>3. SheetInv'
    BY <2>2 DEF SheetInv
  <2>4. ASSUME NEW q \in Requests PROVE HostInv(q)'
    BY <1>0, <2>1, <2>2, <2>4 DEF PayInv, TypeOK, HostInv, Clean, Quiet, RelayQuiet,
             Answer, Refusals, InBlock
  <2> QED BY <2>3, <2>4
<1> QED BY <1>0, <1>1, <1>2, <1>3, <1>4, <1>5, PlatformFrame, ExecFrame DEF RequestInv

-----------------------------------------------------------------------------
(* A request that a step does not touch.                                   *)
LEMMA Untouched ==
    ASSUME PayInv, NEW q \in Requests, exec'[q] = exec[q], call'[q] = call[q],
           UNCHANGED <<told, host, txHash, resolver, chain, lines>>, lost \subseteq lost'
    PROVE  RequestInv(q)'
<1>1. HostInv(q)'
  BY DEF PayInv, HostInv, Clean, Quiet, RelayQuiet, InBlock
<1>2. ExecInv(q)'
  BY DEF PayInv, ExecInv, RelayQuiet, InBlock
<1>3. LineInv(q)'
  BY DEF PayInv, LineInv, InBlock
<1>4. ASSUME NEW p \in Relays PROVE RelayInv(q, p)'
  BY <1>4 DEF PayInv, RelayInv, InBlock
<1> QED BY <1>1, <1>2, <1>3, <1>4 DEF RequestInv

(* The sheet while its executor runs.                                      *)
LEMMA ExecutorRuns ==
    ASSUME PayInv, NEW r \in Requests, exec[r].at # "idle"
    PROVE  /\ resolver = r /\ active # Null /\ active.intent = r
           /\ host[r] = "confirm" /\ told[r] \notin Answer /\ told[r] # "unasked"
           /\ active.phase \in {"pending", "success"}
           /\ active.phase = "success" <=> exec[r].at = "success"
<1>1. resolver = r /\ active # Null /\ active.intent = r /\ host[r] = "confirm"
  BY PayAssumption DEF PayInv, HostInv, SheetInv
<1>2. active \in Sheet
  BY <1>1 DEF PayInv, TypeOK
<1> QED BY <1>1, <1>2 DEF PayInv, HostInv, SheetInv, Sheet, Clean

LEMMA ExecStep ==
    ASSUME PayInv, TypeOK',
           \/ Approves
           \/ \E r \in Requests : Signs(r) \/ TipAnswered(r)
           \/ \E r \in Requests, p \in Relays : RelayAnswered(r, p) \/ RelayLost(r, p)
    PROVE  SheetInv' /\ \A q \in Requests : RequestInv(q)'
<1> USE StepNames
<1>0. TypeOK /\ UNCHANGED <<told, host, txHash, resolver, chain, lines>> /\ lost \subseteq lost'
  BY DEF Approves, Signs, TipAnswered, RelayAnswered, RelayLost, PayInv
(* The executor of the sheet's request r goes to a step.                   *)
<1>1. ASSUME NEW r \in Requests, resolver = r, active # Null, active.intent = r,
             host[r] = "confirm", told[r] \notin Answer, told[r] # "unasked",
             \A q \in Requests \ {r} : exec'[q] = exec[q] /\ call'[q] = call[q],
             active' # Null, active'.intent = r,
             active'.phase # "review",
             active'.phase = "pending" => exec'[r].at \notin {"idle", "success"},
             active'.phase = "success" => exec'[r].at = "success",
             active'.phase = "error" => exec'[r].at = "idle" /\ Quiet(r)',
             ExecInv(r)', LineInv(r)', \A p \in Relays : RelayInv(r, p)'
      PROVE  SheetInv' /\ \A q \in Requests : RequestInv(q)'
  <2>1. SheetInv'
    BY <1>0, <1>1, PayAssumption DEF SheetInv
  <2>2. HostInv(r)'
    BY <1>0, <1>1 DEF HostInv, Answer, Refusals
  <2>3. ASSUME NEW q \in Requests PROVE RequestInv(q)'
    BY <1>0, <1>1, <2>2, Untouched DEF RequestInv
  <2> QED BY <2>1, <2>3
<1>2. ASSUME Approves PROVE SheetInv' /\ \A q \in Requests : RequestInv(q)'
  <2>0. PICK r \in Requests : active.intent = r
    BY <1>2 DEF Approves, PayInv, TypeOK, Sheet
  <2>1. /\ resolver = r /\ Clean(r) /\ active # Null
        /\ host[r] = "confirm" /\ told[r] \notin Answer /\ told[r] # "unasked"
    BY <1>2, <2>0 DEF Approves, PayInv, SheetInv, HostInv
  <2>2. active' # Null /\ active'.phase = "pending" /\ active'.intent = r
    BY <1>0, <1>2, <2>0, <2>1, ShowsDoes DEF Approves
  <2>3. PICK step \in {"relayDelegated", "recipient"} :
          /\ Runs(r, step)
          /\ \/ step = "relayDelegated" /\ Calls(r, step, "checks")
             \/ step = "recipient" /\ call' = call
    BY <1>2, <2>0 DEF Approves
  <2>4. exec'[r].at = step /\ \A q \in Requests \ {r} : exec'[q] = exec[q]
    BY <1>0, <2>1, <2>3, RunsDoes
  <2>5. \A q \in Requests, o \in Procedures :
          call'[q][o] = IF q = r /\ o = step THEN "checks" ELSE call[q][o]
    BY <1>0, <2>1, <2>3, CallsDoes DEF Clean
  <2>6. \A q \in Requests \ {r} : call'[q] = call[q]
    BY <1>0, <2>1, <2>3 DEF TypeOK, Calls
  <2>7. ExecInv(r)' /\ LineInv(r)' /\ \A p \in Relays : RelayInv(r, p)'
    <3>1. ExecInv(r)'
      BY <1>0, <2>1, <2>4, <2>5 DEF ExecInv, RelayQuiet, Clean
    <3>2. LineInv(r)'
      BY <1>0, <2>1, <2>4, <2>5 DEF PayInv, LineInv, InBlock, Clean
    <3>3. ASSUME NEW p \in Relays PROVE RelayInv(r, p)'
      <4>1. call[r][p] = "idle" /\ call'[r][p] \in {"idle", "checks"}
        BY <2>1, <2>5 DEF Clean
      <4> QED BY <1>0, <4>1 DEF PayInv, RelayInv
    <3> QED BY <3>1, <3>2, <3>3
  <2> QED BY <1>1, <2>0, <2>1, <2>2, <2>3, <2>4, <2>6, <2>7
<1>3. ASSUME NEW r \in Requests, Signs(r) PROVE SheetInv' /\ \A q \in Requests : RequestInv(q)'
  <2>0. /\ exec[r].at = "recipient" /\ exec[r].at # "idle" /\ lost' = lost
        /\ call[r]["relay"] = "idle" /\ call[r]["recordTip"] = "idle"
        /\ RelayQuiet(r, "relayDelegated")
    BY <1>3 DEF Signs, PayInv, ExecInv
  <2>1. CASE Runs(r, "relay") /\ Calls(r, "relay", "checks") /\ UNCHANGED active
    <3>1. exec'[r].at = "relay" /\ \A q \in Requests \ {r} : exec'[q] = exec[q]
      BY <1>0, <2>1, RunsDoes
    <3>2. /\ call'[r]["relay"] = "checks" /\ call'[r]["recordTip"] = "idle"
          /\ call'[r]["relayDelegated"] = call[r]["relayDelegated"]
      BY <1>0, <2>0, <2>1, CallsDoes
    <3>3. \A q \in Requests \ {r} : call'[q] = call[q]
      BY <1>0, <2>1 DEF TypeOK, Calls
    <3>4. ExecInv(r)'
      BY <2>0, <3>1, <3>2 DEF ExecInv, RelayQuiet
    <3>5. LineInv(r)'
      BY <1>0, <2>0, <3>2 DEF PayInv, LineInv, InBlock
    <3>6. RelayInv(r, "relayDelegated")' /\ RelayInv(r, "relay")'
      BY <1>0, <2>0, <3>2 DEF PayInv, RelayInv, InBlock
    <3> QED BY <1>1, <2>0, <2>1, <3>1, <3>3, <3>4, <3>5, <3>6, ExecutorRuns
  <2>2. CASE Fails(r)
    <3>1. exec'[r].at = "idle" /\ call' = call /\ \A q \in Requests \ {r} : exec'[q] = exec[q]
      BY <1>0, <2>2, RunsDoes DEF Fails
    <3>2. active' # Null /\ active'.phase = "error" /\ active'.intent = r
      BY <1>0, <2>0, <2>2, ExecutorRuns, ShowsDoes DEF Fails
    <3>3. Quiet(r)' /\ ExecInv(r)'
      BY <2>0, <3>1 DEF Quiet, RelayQuiet, ExecInv
    <3> QED BY <1>0, <1>1, <2>0, <3>1, <3>2, <3>3, ExecutorRuns, PlatformFrame
  <2> QED BY <1>3, <2>1, <2>2 DEF Signs
(* The executor has the hash of a transfer that is in a block.             *)
<1>4. ASSUME NEW r \in Requests, NEW p \in Relays, exec[r].at # "idle",
             call[r][p] = "ok", Succeeds(r, <<r, p>>), lost' = lost
      PROVE  SheetInv' /\ \A q \in Requests : RequestInv(q)'
  <2>1. /\ exec'[r].at = "success" /\ exec'[r].hash = <<r, p>> /\ call' = call
        /\ \A q \in Requests \ {r} : exec'[q] = exec[q] /\ Shows("success")
    BY <1>0, <1>4, SucceedsDoes
  <2>2. active' # Null /\ active'.phase = "success" /\ active'.intent = r
    BY <1>0, <1>4, ExecutorRuns, ShowsDoes DEF Succeeds
  <2>3. InBlock(<<r, p>>)'
    BY <1>0, <1>4 DEF PayInv, RelayInv, InBlock
  <2>4. call[r]["relay"] # "idle" => RelayQuiet(r, "relayDelegated")
    BY DEF PayInv, ExecInv
  <2>5. ExecInv(r)'
    BY <1>0, <1>4, <2>1, <2>3, <2>4 DEF ExecInv, RelayQuiet, InBlock
  <2> QED BY <1>0, <1>1, <1>4, <2>1, <2>2, <2>5, ExecutorRuns, PlatformFrame
<1>5. ASSUME NEW r \in Requests, TipAnswered(r)
      PROVE  SheetInv' /\ \A q \in Requests : RequestInv(q)'
  <2>1. exec[r].at # "idle" /\ call[r]["relay"] = "ok" /\ lost' = lost
    BY <1>5 DEF TipAnswered, PayInv, ExecInv
  <2> QED BY <1>4, <1>5, <2>1 DEF TipAnswered
(* A relay that threw, or whose answer was lost.                           *)
<1>6. ASSUME NEW r \in Requests, NEW p \in Relays, exec[r].at = p, FallsThrough(r, p),
             \/ call[r][p] = "error" /\ lost' = lost
             \/ lost' = lost \cup {r}
      PROVE  SheetInv' /\ \A q \in Requests : RequestInv(q)'
  <2>0. exec[r].at # "idle" /\ lost \subseteq lost' /\ call' = call /\ RelayQuiet(r, p)'
    BY <1>6 DEF FallsThrough, Fails, RelayQuiet
  <2>1. CASE p = "relayDelegated"
    <3>1. exec'[r].at = "recipient" /\ \A q \in Requests \ {r} : exec'[q] = exec[q]
      BY <1>0, <1>6, <2>1, RunsDoes DEF FallsThrough
    <3>2. active' = active
      BY <1>6, <2>1 DEF FallsThrough
    <3>3. call[r]["relay"] = "idle" /\ call[r]["recordTip"] = "idle"
      BY <1>6, <2>1 DEF PayInv, ExecInv
    <3>4. ExecInv(r)'
      BY <2>0, <2>1, <3>1, <3>3 DEF ExecInv
    <3> QED BY <1>0, <1>1, <1>6, <2>0, <2>1, <3>1, <3>2, <3>4, ExecutorRuns, PlatformFrame
  <2>2. CASE p = "relay"
    <3>1. exec'[r].at = "idle" /\ \A q \in Requests \ {r} : exec'[q] = exec[q]
      BY <1>0, <1>6, <2>2, RunsDoes DEF FallsThrough, Fails
    <3>2. active' # Null /\ active'.phase = "error" /\ active'.intent = r
      BY <1>0, <1>6, <2>0, <2>2, ExecutorRuns, ShowsDoes DEF FallsThrough, Fails
    <3>3. RelayQuiet(r, "relayDelegated")
      BY <1>6, <2>2 DEF PayInv, ExecInv
    <3>4. Quiet(r)' /\ ExecInv(r)'
      BY <2>0, <2>2, <3>1, <3>3 DEF Quiet, RelayQuiet, ExecInv
    <3> QED BY <1>0, <1>1, <2>0, <3>1, <3>2, <3>4, ExecutorRuns, PlatformFrame
  <2> QED BY <2>1, <2>2
<1>7. ASSUME NEW r \in Requests, exec[r].at = "relay", call[r]["relay"] = "ok",
             r \in ToFriend, Runs(r, "recordTip"), Calls(r, "recordTip", "friend"),
             UNCHANGED <<active, lost>>
      PROVE  SheetInv' /\ \A q \in Requests : RequestInv(q)'
  <2>1. exec'[r].at = "recordTip" /\ \A q \in Requests \ {r} : exec'[q] = exec[q]
    BY <1>0, <1>7, RunsDoes
  <2>2. /\ call'[r]["relay"] = "ok" /\ call'[r]["recordTip"] = "friend"
        /\ call'[r]["relayDelegated"] = call[r]["relayDelegated"]
    BY <1>0, <1>7, CallsDoes
  <2>3. \A q \in Requests \ {r} : call'[q] = call[q]
    BY <1>0, <1>7 DEF TypeOK, Calls
  <2>4. RelayQuiet(r, "relayDelegated") /\ call[r]["recordTip"] = "idle"
    BY <1>7 DEF PayInv, ExecInv
  <2>5. ExecInv(r)'
    BY <1>7, <2>1, <2>2, <2>4 DEF ExecInv, RelayQuiet
  <2>6. LineInv(r)'
    BY <1>0, <1>7, <2>2, <2>4 DEF PayInv, LineInv, InBlock
  <2>7. RelayInv(r, "relayDelegated")' /\ RelayInv(r, "relay")'
    BY <1>0, <1>7, <2>2 DEF PayInv, RelayInv, InBlock
  <2> QED BY <1>1, <1>7, <2>1, <2>3, <2>5, <2>6, <2>7, ExecutorRuns
<1>8. ASSUME NEW r \in Requests, NEW p \in Relays, RelayAnswered(r, p) \/ RelayLost(r, p)
      PROVE  SheetInv' /\ \A q \in Requests : RequestInv(q)'
  <2>1. CASE RelayLost(r, p)
    BY <1>6, <2>1 DEF RelayLost
  <2>2. CASE RelayAnswered(r, p) /\ call[r][p] = "ok" /\ Relayed(r, p)
    BY <1>4, <1>7, <2>2 DEF RelayAnswered, Relayed
  <2>3. CASE RelayAnswered(r, p) /\ call[r][p] = "error" /\ FallsThrough(r, p)
    BY <1>6, <2>3 DEF RelayAnswered
  <2> QED BY <1>8, <2>1, <2>2, <2>3 DEF RelayAnswered
<1> QED BY <1>2, <1>3, <1>5, <1>8

LEMMA ClosesStep ==
    ASSUME PayInv, TypeOK', NEW r \in Requests, Closes(r)
    PROVE  SheetInv' /\ \A q \in Requests : RequestInv(q)'
<1> USE StepNames
<1>1. /\ exec[r].at = "success" /\ resolver = r /\ resolver # Null /\ host[r] = "confirm"
      /\ exec[r].hash \in {r} \X Relays /\ InBlock(exec[r].hash)
      /\ told[r] \notin Answer /\ told[r] # "unasked"
  BY ExecutorRuns, PayAssumption DEF Closes, PayInv, ExecInv
<1>2. /\ host' = [host EXCEPT ![r] = "ok"] /\ txHash' = [txHash EXCEPT ![r] = exec[r].hash]
      /\ resolver' = Null /\ active' = Null /\ UNCHANGED <<told, call, chain, lines, lost>>
      /\ Runs(r, "idle") /\ TypeOK
  BY <1>1 DEF Closes, Settle, PayInv
<1>3. exec'[r].at = "idle" /\ \A q \in Requests \ {r} : exec'[q] = exec[q]
  BY <1>2, RunsDoes
<1>4. SheetInv'
  BY <1>2 DEF SheetInv
<1>5. ASSUME NEW q \in Requests PROVE HostInv(q)'
  BY <1>1, <1>2, <1>3, <1>5 DEF TypeOK, PayInv, HostInv, Clean, Quiet, RelayQuiet,
                                Answer, Refusals, InBlock
<1>6. ASSUME NEW q \in Requests PROVE ExecInv(q)'
  BY <1>2, <1>3, <1>6 DEF PayInv, ExecInv, RelayQuiet, InBlock
<1> QED BY <1>2, <1>4, <1>5, <1>6, PlatformFrame DEF RequestInv

(* The page and the platform share a request only by these.                *)
LEMMA PageFrame ==
    ASSUME PayInv, UNCHANGED <<told, host, txHash, resolver, active, exec>>,
           \A h \in Hash : InBlock(h) => InBlock(h)',
           \A q \in Requests :
              /\ \A p \in Relays : RelayQuiet(q, p) => RelayQuiet(q, p)'
              /\ \A p \in Procedures : call'[q][p] = "idle" <=> call[q][p] = "idle"
              /\ call[q]["relay"] = "ok" => call'[q]["relay"] = "ok"
    PROVE  SheetInv' /\ \A q \in Requests : HostInv(q)' /\ ExecInv(q)'
<1> USE StepNames
<1>1. SheetInv'
  <2>1. ASSUME active # Null PROVE active.intent \in Requests
    BY <2>1 DEF PayInv, TypeOK, Sheet
  <2>2. \A q \in Requests : Clean(q) => Clean(q)'
    BY DEF Clean
  <2>3. \A q \in Requests : Quiet(q) => Quiet(q)'
    BY DEF Quiet
  <2> QED BY <2>1, <2>2, <2>3 DEF PayInv, SheetInv
<1>2. ASSUME NEW q \in Requests PROVE HostInv(q)'
  <2>1. Clean(q) => Clean(q)'
    BY DEF Clean
  <2>2. Quiet(q) => Quiet(q)'
    BY DEF Quiet
  <2>3. \A h \in {q} \X Relays : InBlock(h) => InBlock(h)'
    BY DEF Hash
  <2> QED BY <2>1, <2>2, <2>3 DEF PayInv, HostInv
<1>3. ASSUME NEW q \in Requests PROVE ExecInv(q)'
  <2>1. \A h \in {q} \X Relays : InBlock(h) => InBlock(h)'
    BY DEF Hash
  <2> QED BY <1>3, <2>1 DEF PayInv, ExecInv
<1> QED BY <1>1, <1>2, <1>3

LEMMA CallStep ==
    ASSUME PayInv, TypeOK', NEW r \in Requests, NEW p \in Procedures,
           \/ Serves(r, p)
           \/ p \in Relays /\ (SubmitLost(r, p) \/ ReceiptLost(r, p))
    PROVE  SheetInv' /\ \A q \in Requests : RequestInv(q)'
<1> USE StepNames
<1> DEFINE x == call[r][p]
           y == call'[r][p]
<1>1. /\ TypeOK /\ UNCHANGED <<told, host, txHash, resolver, active, exec>>
      /\ lost \subseteq lost' /\ lost' \subseteq lost \cup {r}
  BY DEF Serves, Checks, Submits, Receipt, TipFriend, TipDup, TipInsert, TipThrows,
         SubmitLost, ReceiptLost, PayInv
(* How a call goes on, and what of the chain and the lines goes with it.   *)
<1>2. PICK step \in CallSteps :
        /\ Calls(r, p, step)
        /\ \/ x = "checks" /\ step \in {"submit", "error"} /\ UNCHANGED <<chain, lines>>
           \/ /\ x = "submit" /\ step = "error" /\ UNCHANGED <<chain, lines>>
           \/ /\ x = "submit" /\ UNCHANGED lines
              /\ step = "receipt" \/ (step = "error" /\ r \in lost')
              /\ chain' = [chain EXCEPT ![<<r, p>>] = "sent"]
           \/ /\ x = "receipt" /\ UNCHANGED <<chain, lines>>
              /\ \/ step = "error" /\ r \in lost'
                 \/ step = "ok" /\ InBlock(<<r, p>>)
                 \/ step = "friend" /\ InBlock(<<r, p>>) /\ p = "relayDelegated" /\ r \in ToFriend
           \/ /\ x \in {"friend", "dup", "insert"} /\ step \in {"dup", "insert", "ok"}
              /\ UNCHANGED <<chain, lines>>
           \/ /\ x = "insert" /\ step = "ok" /\ UNCHANGED chain
              /\ lines' = [lines EXCEPT ![<<r, Records(p)>>] = @ + 1]
        /\ x \in {"checks", "submit", "receipt"} => p \in Relays
  <2>1. CASE p \in Relays /\ Checks(r, p)
    BY <2>1 DEF Checks
  <2>2. CASE p \in Relays /\ (Submits(r, p) \/ SubmitLost(r, p))
    <3>1. CASE Submits(r, p) /\ Calls(r, p, "error")
      BY <2>2, <3>1 DEF Submits, Calls, TypeOK
    <3>2. CASE Submits(r, p) /\ Calls(r, p, "receipt") /\ chain' = [chain EXCEPT ![<<r, p>>] = "sent"]
      <4>1. x = "submit" /\ lines' = lines /\ "receipt" \in CallSteps
        BY <3>2 DEF Submits
      <4> QED BY <2>2, <3>2, <4>1
    <3>3. CASE SubmitLost(r, p)
      BY <2>2, <3>3 DEF SubmitLost
    <3> QED BY <2>2, <3>1, <3>2, <3>3 DEF Submits
  <2>3. CASE p \in Relays /\ ReceiptLost(r, p)
    BY <2>3 DEF ReceiptLost
  <2>4. CASE p \in Relays /\ Receipt(r, p)
    BY <2>4 DEF Receipt, AfterRelay, InBlock
  <2>5. CASE TipFriend(r, p) \/ TipThrows(r, p)
    BY <2>5 DEF TipFriend, TipThrows
  <2>6. CASE TipDup(r, p)
    BY <2>6 DEF TipDup
  <2>7. CASE TipInsert(r, p)
    BY <2>7 DEF TipInsert
  <2> QED BY <2>1, <2>2, <2>3, <2>4, <2>5, <2>6, <2>7 DEF Serves
<1>3. /\ y = step
      /\ \A q \in Requests, o \in Procedures : q # r \/ o # p => call'[q][o] = call[q][o]
  BY <1>1, <1>2, CallsDoes
<1>4. x \notin {"idle", "ok", "error"} /\ y # "idle"
  BY <1>2, <1>3
<1>5. \A h \in Hash : InBlock(h) => InBlock(h)'
  <2>1. x = "submit" => p \in Relays /\ chain[<<r, p>>] = "unsigned"
    BY <1>2 DEF PayInv, RelayInv
  <2> QED BY <1>1, <1>2, <2>1 DEF InBlock, TypeOK
<1>6. SheetInv' /\ \A q \in Requests : HostInv(q)' /\ ExecInv(q)'
  <2>1. ASSUME NEW q \in Requests, NEW o \in Relays, RelayQuiet(q, o) PROVE RelayQuiet(q, o)'
    BY <1>1, <1>3, <1>4, <2>1 DEF RelayQuiet
  <2>2. ASSUME NEW q \in Requests, NEW o \in Procedures
        PROVE  call'[q][o] = "idle" <=> call[q][o] = "idle"
    BY <1>3, <1>4, <2>2
  <2>3. ASSUME NEW q \in Requests, call[q]["relay"] = "ok" PROVE call'[q]["relay"] = "ok"
    BY <1>3, <1>4, <2>3
  <2> QED BY <1>1, <1>5, <2>1, <2>2, <2>3, PageFrame
<1>7. ASSUME NEW q \in Requests, NEW o \in Relays PROVE RelayInv(q, o)'
  <2>1. RelayInv(q, o) /\ <<q, o>> \in Hash
    BY <1>7 DEF PayInv
  <2>2. CASE q = r /\ o = p
    <3>1. chain[<<r, p>>] \in {"unsigned", "sent", "landed", "reverted"}
      BY <2>1, <2>2 DEF PayInv, TypeOK
    <3> QED BY <1>1, <1>2, <1>3, <1>4, <2>1, <2>2, <3>1 DEF RelayInv, InBlock, TypeOK
  <2>3. CASE ~(q = r /\ o = p)
    <3>1. chain'[<<q, o>>] = chain[<<q, o>>] /\ call'[q][o] = call[q][o]
      BY <1>1, <1>2, <1>3, <2>1, <2>3 DEF TypeOK
    <3> QED BY <1>1, <2>1, <3>1 DEF RelayInv, InBlock
  <2> QED BY <2>2, <2>3
<1>8. ASSUME NEW q \in Requests PROVE LineInv(q)'
  <2>1. LineInv(q) /\ LineInv(r) /\ \A o \in Relays : <<q, o>> \in Hash /\ lines[<<q, o>>] \in Nat
    BY DEF PayInv, TypeOK
  <2>2. CASE q # r
    <3>1. /\ call'[q]["relay"] = call[q]["relay"]
          /\ call'[q]["recordTip"] = call[q]["recordTip"]
          /\ call'[q]["relayDelegated"] = call[q]["relayDelegated"]
          /\ \A o \in Relays : lines'[<<q, o>>] = lines[<<q, o>>]
      BY <1>1, <1>2, <1>3, <2>1, <2>2 DEF TypeOK
    <3> QED BY <1>5, <2>1, <3>1 DEF LineInv
  <2>3. CASE q = r /\ x # "insert"
    <3>1. lines' = lines
      BY <1>2, <2>3
    <3>2. CASE p = "relay"
      BY <1>2, <1>3, <1>4, <1>5, <2>1, <2>3, <3>1, <3>2 DEF LineInv
    <3>3. CASE p = "recordTip"
      BY <1>2, <1>3, <1>4, <1>5, <2>1, <2>3, <3>1, <3>3 DEF LineInv
    <3>4. CASE p = "relayDelegated"
      BY <1>2, <1>3, <1>4, <1>5, <2>1, <2>3, <3>1, <3>4 DEF LineInv
    <3> QED BY <3>2, <3>3, <3>4
  <2>4. CASE q = r /\ x = "insert"
    <3>1. p # "relay" /\ r \in ToFriend
      BY <2>1, <2>4 DEF LineInv
    <3>2. lines[<<r, Records(p)>>] = 0 /\ Records(p) \in Relays /\ InBlock(<<r, Records(p)>>)
      BY <2>1, <2>4, <3>1 DEF LineInv, Records, PayInv, RelayInv
    <3>3. /\ \A o \in Relays \ {Records(p)} : lines'[<<r, o>>] = lines[<<r, o>>]
          /\ \/ lines'[<<r, Records(p)>>] = 0
             \/ y = "ok" /\ lines'[<<r, Records(p)>>] = 1
      BY <1>1, <1>2, <1>3, <2>1, <2>4, <3>2 DEF TypeOK
    <3>4. CASE p = "recordTip"
      BY <1>2, <1>3, <1>4, <1>5, <2>1, <2>4, <3>1, <3>2, <3>3, <3>4 DEF LineInv, Records
    <3>5. CASE p = "relayDelegated"
      BY <1>2, <1>3, <1>4, <1>5, <2>1, <2>4, <3>1, <3>2, <3>3, <3>5 DEF LineInv, Records
    <3> QED BY <3>1, <3>4, <3>5
  <2> QED BY <2>2, <2>3, <2>4
<1> QED BY <1>6, <1>7, <1>8 DEF RequestInv

LEMMA MinedStep ==
    ASSUME PayInv, NEW m \in Hash, Mined(m)
    PROVE  SheetInv' /\ \A q \in Requests : RequestInv(q)'
<1>1. /\ TypeOK /\ UNCHANGED <<told, host, txHash, resolver, active, exec, call, lines, lost>>
      /\ chain[m] = "sent" /\ chain'[m] \in {"landed", "reverted"}
      /\ \A h \in Hash \ {m} : chain'[h] = chain[h]
  BY DEF Mined, PayInv, TypeOK
<1>2. \A h \in Hash : InBlock(h) => InBlock(h)'
  BY <1>1 DEF InBlock
<1>3. SheetInv' /\ \A q \in Requests : HostInv(q)' /\ ExecInv(q)'
  BY <1>1, <1>2, PageFrame DEF RelayQuiet
<1>4. ASSUME NEW q \in Requests PROVE LineInv(q)' /\ \A p \in Relays : RelayInv(q, p)'
  <2>1. \A p \in Relays : <<q, p>> \in Hash
    BY StepNames
  <2>2. LineInv(q)'
    BY <1>1, <1>2, <2>1 DEF PayInv, LineInv
  <2>3. ASSUME NEW p \in Relays PROVE RelayInv(q, p)'
    BY <1>1, <1>2, <2>1, <2>3 DEF PayInv, RelayInv, InBlock
  <2> QED BY <2>2, <2>3
<1> QED BY <1>3, <1>4 DEF RequestInv

LEMMA StepInv == ASSUME PayInv, [Next]_vars PROVE PayInv'
<1>1. TypeOK'
  BY StepType DEF PayInv
<1>2. SheetInv' /\ \A q \in Requests : RequestInv(q)'
  <2>1. CASE \/ \E r \in Requests : Asks(r) \/ TimesOut(r) \/ Hears(r) \/ Dispatch(r)
             \/ Rejects
    BY <1>1, <2>1, PageStep
  <2>2. CASE \/ Approves
             \/ \E r \in Requests : Signs(r) \/ TipAnswered(r)
             \/ \E r \in Requests, p \in Relays : RelayAnswered(r, p) \/ RelayLost(r, p)
    BY <1>1, <2>2, ExecStep
  <2>3. CASE \E r \in Requests : Closes(r)
    BY <1>1, <2>3, ClosesStep
  <2>4. CASE \/ \E r \in Requests, p \in Procedures : Serves(r, p)
             \/ \E r \in Requests, p \in Relays : SubmitLost(r, p) \/ ReceiptLost(r, p)
    BY <1>1, <2>4, CallStep, StepNames
  <2>5. CASE \E h \in Hash : Mined(h)
    BY <2>5, MinedStep
  <2>6. CASE UNCHANGED vars
    <3>1. SheetInv'
      BY <2>6 DEF vars, PayInv, SheetInv, Clean, Quiet, RelayQuiet
    <3>2. ASSUME NEW q \in Requests PROVE RequestInv(q)'
      BY <2>6, Untouched DEF vars
    <3> QED BY <3>1, <3>2
  <2> QED BY <2>1, <2>2, <2>3, <2>4, <2>5, <2>6 DEF Next, Executes, Faults
<1> QED BY <1>1, <1>2 DEF PayInv, RequestInv

THEOREM PayInvariant == Spec => []PayInv
<1> QED BY InitInv, StepInv, PTL DEF Spec

-----------------------------------------------------------------------------
(* Every variable of Pay stays in its type.                                *)
THEOREM PayTypes == Spec => []TypeOK
<1>1. PayInv => TypeOK
  BY DEF PayInv
<1> QED BY <1>1, PayInvariant, PTL

LEMMA RelayedOnce ==
    ASSUME PayInv, NEW r \in Requests, r \notin lost
    PROVE  \A p, q \in Relays : <<r, p>> \in Sent(r) /\ <<r, q>> \in Sent(r) => p = q
<1>1. \A p \in Relays : <<r, p>> \in Sent(r) => call[r][p] \notin {"idle", "error"}
  BY StepNames DEF PayInv, RelayInv, Sent
<1>2. call[r]["relay"] # "idle" => call[r]["relayDelegated"] \in {"idle", "error"}
  BY DEF PayInv, ExecInv, RelayQuiet
<1> QED BY <1>1, <1>2, StepNames

(* One tap on "approve" sends one transfer, as long as no answer and no    *)
(* receipt was lost (pay-executor.ts:58).                                  *)
THEOREM OnePayment == Spec => []OnePaymentUnlessLost
<1>1. PayInv => OnePaymentUnlessLost
  <2> SUFFICES ASSUME PayInv, NEW r \in Requests, r \notin lost
               PROVE  ~(Cardinality(Sent(r)) > 1)
    BY DEF OnePaymentUnlessLost
  <2>1. CASE Sent(r) = {}
    BY <2>1, FS_EmptySet
  <2>2. CASE Sent(r) # {}
    <3>1. PICK h : h \in Sent(r)
      BY <2>2
    <3>2. Sent(r) = {h}
      BY <3>1, RelayedOnce DEF Sent
    <3>3. Cardinality({h}) = 1
      BY FS_Singleton
    <3> QED BY <3>2, <3>3
  <2> QED BY <2>1, <2>2
<1> QED BY <1>1, PayInvariant, PTL

(* A jam that is told of a refusal has received nothing                    *)
(* (host-handlers.ts:114).                                                 *)
THEOREM NothingSentWhenRefused == Spec => []RefusedIsUnpaid
<1>1. PayInv => RefusedIsUnpaid
  <2> SUFFICES ASSUME PayInv, NEW r \in Requests, told[r] \in Refusals, r \notin lost
               PROVE  Sent(r) = {}
    BY DEF RefusedIsUnpaid
  <2>1. ASSUME NEW p \in Relays PROVE chain[<<r, p>>] = "unsigned"
    BY <2>1 DEF PayInv, HostInv, Quiet, RelayQuiet, RelayInv
  <2> QED BY <2>1 DEF Sent
<1> QED BY <1>1, PayInvariant, PTL

(* The hash a jam is told, and the hash of a chat line, is that of a       *)
(* transfer of the same request that is in a block                         *)
(* (confirm-provider.tsx:82, chat-service.ts:320).                         *)
THEOREM ToldTheTruth == Spec => []ToldIsMined
<1>1. PayInv => ToldIsMined
  <2> SUFFICES ASSUME PayInv PROVE ToldIsMined
    OBVIOUS
  <2>1. ASSUME NEW r \in Requests, told[r] = "ok"
        PROVE  \E h \in {r} \X Relays : txHash[r] = h /\ chain[h] \in {"landed", "reverted"}
    BY <2>1 DEF PayInv, HostInv, InBlock
  <2>2. ASSUME NEW h \in Hash, lines[h] > 0
        PROVE  h[1] \in ToFriend /\ chain[h] \in {"landed", "reverted"} /\ lines[h] = 1
    <3>1. PICK r \in Requests, p \in Relays : h = <<r, p>>
      BY DEF Hash
    <3> QED BY <2>2, <3>1 DEF PayInv, LineInv, InBlock
  <2> QED BY <2>1, <2>2 DEF ToldIsMined
<1> QED BY <1>1, PayInvariant, PTL
=============================================================================
