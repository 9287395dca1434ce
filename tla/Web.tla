--------------------------------- MODULE Web ---------------------------------
(***************************************************************************)
(* The web client: a person has open the build wizard, as it saves what is *)
(* made (Draft) or as it shows what becomes of it (MakeFlow), or the shell *)
(* that frames jams.  To go from one page to another is to leave the one   *)
(* and open the other, which each module has as actions of its own; beyond *)
(* what Draft says of the session they share nothing.                      *)
(***************************************************************************)
EXTENDS ShellProperties, MakeFlow

CONSTANTS Devices, BuildsOn, MaxEdits, MaxOpens             \* of Draft

VARIABLES
    page,                                                   \* what is open
    tab, local, saves, row, create, edits, opens, spoilt    \* of Draft

Wizard == INSTANCE DraftProperties

(* Null is no snapshot of a draft.                                         *)
ASSUME WizardAssumption == Null \notin [n : Nat, has : Wizard!Contents, build : BOOLEAN]

wizardVars == <<tab, local, saves, row, create, edits, opens, spoilt>>

WebInit ==
    /\ Init /\ Wizard!Init /\ FlowInit
    /\ \/ page \in {"drafts", "workshop"} /\ path = "welcome" /\ shown = {}
       \/ page = "jams"

OnDrafts(A) == page = "drafts" /\ A /\ UNCHANGED <<page, flowVars, vars>>

InTheWorkshop(A) == page = "workshop" /\ A /\ UNCHANGED <<page, wizardVars, vars>>

OnJams(A) == page = "jams" /\ A /\ UNCHANGED <<page, wizardVars, flowVars>>

WebNext == OnDrafts(Wizard!Next) \/ InTheWorkshop(FlowNext) \/ OnJams(Next)

webVars == <<page, wizardVars, flowVars, vars>>

(* The fairness of Draft, of MakeFlow and of Shell, each on its page; one  *)
(* condition stands for steps that cannot put each other off for ever.     *)
WebFairness ==
    /\ \A d \in Devices :
        WF_webVars(OnDrafts(Wizard!TimerFires(d) \/ Wizard!Authenticates(d)))
    /\ WF_webVars(OnDrafts(\E save \in saves :
                             Wizard!SaveArrives(save) \/ Wizard!SaveFails(save)))
    /\ WF_webVars(OnDrafts(Wizard!CreateLinks \/ Wizard!CreateAnswers))
    /\ WF_webVars(InTheWorkshop(DemoEnds \/ PollsAgain))
    /\ SF_webVars(InTheWorkshop(StatusReads))
    /\ SF_webVars(InTheWorkshop(PollAnswers))
    /\ \A h \in Hooks : WF_webVars(OnJams(Resolves(h) \/ MeAnswers(h) \/ MeFails(h)))
    /\ \A j \in Jams : WF_webVars(OnJams(Blocks(j) \/ Bails(j)))

WebFairSpec == WebInit /\ [][WebNext]_webVars /\ WebFairness

(* Of Draft: a draft that was built is listed no more.                     *)
BuiltLeavesTheList == Wizard!BuiltLeavesTheList

(* Of Draft: the newest snapshot that is worth a row reaches it.           *)
NewestReachesTheRow == Wizard!NewestReachesTheRow
=============================================================================
