----------------------------- MODULE PortPolicy -----------------------------
(***************************************************************************)
(* What the application answers to the port partner (src/app/pdo.c, swap.c,   *)
(* vdm.c, app.c, src/main.c): the choice of a capability, role swaps, vendor  *)
(* messages and extended messages.  The stack calls one handler at a time from *)
(* the main loop and is told the answer by a callback or a command.           *)
(*                                                                         *)
(* The port is a sink and UFP: alternate modes and VCONN are never entered,    *)
(* so the answers that depend on them are not reached.  Extended messages are  *)
(* taken to come from partners of revision 3 only, where PD defines them: the  *)
(* handlers do not look at the revision (main.c:166-178), so this is an         *)
(* assumption about the partner and the stack.                               *)
(***************************************************************************)
EXTENDS PdoSelect

Revisions == {2, 3}          \* specRevSopLive, as the revision it stands for

(* A vendor message. *)
Vdms == [structured : BOOLEAN, initiator : BOOLEAN, cmd : {"IDENTITY", "ATTENTION", "OTHER"},
         single : BOOLEAN, standard : BOOLEAN, version : 0..1, minor : 0..1]

(* An extended message: what it asks for, whether another chunk is to follow,    *)
(* and whether the battery it names is the one there is.                      *)
Extended == [msg : {"BATTERY_STATUS", "BATTERY_CAP", "SECURITY_RESP", "FW_UPDATE_RESP", "OTHER"},
             more : BOOLEAN, known : BOOLEAN]
ResponseMessages == {"SECURITY_RESP", "FW_UPDATE_RESP"}

VARIABLES
    connected,  \* a partner is attached
    revision,   \* dpmConfig.specRevSopLive
    contract,   \* a contract is in place
    version,    \* app_status.vdm_version
    minor,      \* app_status.vdm_minor_version
    asked,      \* the message that was handled last
    answers,    \* what was handed to the stack for it, in order
    \* history, read by the properties only
    ceiling     \* the versions and minor versions offered since the contract

linkVars == <<connected, revision, contract>>
vdmVars == <<version, minor, ceiling>>
talkVars == <<asked, answers>>
vars == <<pdoVars, linkVars, vdmVars, talkVars>>

Nothing == [kind |-> "NOTHING"]

PolicyTypeOK ==
    /\ connected \in BOOLEAN
    /\ revision \in Revisions
    /\ contract \in BOOLEAN
    /\ version \in 0..1
    /\ minor \in 0..1
    /\ ceiling \in [version : 0..1, minor : 0..1]
TypeOK == PdoTypeOK /\ PolicyTypeOK

Init ==
    /\ PdoInit
    /\ connected = FALSE /\ revision = 2 /\ contract = FALSE
    /\ version = 0 /\ minor = 0 /\ ceiling = [version |-> 0, minor |-> 0]
    /\ asked = Nothing /\ answers = << >>

Lower(a, b) == IF a < b THEN a ELSE b
Idle == offer = << >>
Reply(message, given) == asked' = message /\ answers' = given

-----------------------------------------------------------------------------
(* Attach, contract, detach: app_event_handler. *)

Connect(r) ==
    /\ Idle /\ ~connected
    /\ connected' = TRUE /\ revision' = r
    /\ Reply(Nothing, << >>)
    /\ UNCHANGED <<pdoVars, contract, vdmVars>>

SourceCaps(caps) ==
    /\ connected
    /\ StartEvaluation(caps)
    /\ Reply([kind |-> "CAPS"], << >>)
    /\ UNCHANGED <<linkVars, vdmVars>>

CompareCaps == Compare /\ UNCHANGED <<linkVars, vdmVars, talkVars>>

(* Mutant: without a match the stack is not called. *)
SendRequest_OnlyMatch ==
    /\ Evaluated
    /\ Reply(asked, IF match THEN <<Request>> ELSE << >>)
    /\ offer' = << >> /\ snkIndex' = 1 /\ srcIndex' = 1
    /\ UNCHANGED <<highest, match, rdo, linkVars, vdmVars>>

SendRequest ==
    /\ Evaluated
    /\ Reply(asked, <<Request>>)
    /\ offer' = << >> /\ snkIndex' = 1 /\ srcIndex' = 1
    /\ UNCHANGED <<highest, match, rdo, linkVars, vdmVars>>

Requested == Idle /\ asked.kind = "CAPS"

(* Mutant: the versions of the last contract remain. *)
ContractComplete_KeepsVersion ==
    /\ Requested /\ connected
    /\ contract' = TRUE
    /\ ceiling' = [version |-> revision - 2, minor |-> revision - 2]
    /\ Reply(Nothing, << >>)
    /\ UNCHANGED <<pdoVars, connected, revision, version, minor>>

(* APP_EVT_PD_CONTRACT_NEGOTIATION_COMPLETE: 1.0 for revision 2, 2.1 for 3.    *)
ContractComplete ==
    /\ Requested /\ connected
    /\ contract' = TRUE
    /\ version' = revision - 2 /\ minor' = revision - 2
    /\ ceiling' = [version |-> revision - 2, minor |-> revision - 2]
    /\ Reply(Nothing, << >>)
    /\ UNCHANGED <<pdoVars, connected, revision>>

(* After a hard reset the revision is found out again.                        *)
HardReset(r) ==
    /\ Idle /\ connected
    /\ contract' = FALSE /\ revision' = r
    /\ Reply(Nothing, << >>)
    /\ UNCHANGED <<pdoVars, connected, vdmVars>>

Disconnect ==
    /\ Idle /\ connected
    /\ connected' = FALSE /\ contract' = FALSE
    /\ Reply(Nothing, << >>)
    /\ UNCHANGED <<pdoVars, revision, vdmVars>>

-----------------------------------------------------------------------------
(* Role swaps: swap.c.  All configured answers are "not supported". *)

(* Mutant: every partner is told so. *)
SwapAnswer_AnyRevision == "NOT_SUPPORTED"

(* get_response, and the sink-only branch of eval_pr_swap.                     *)
SwapAnswer == IF revision = 2 THEN "REJECT" ELSE "NOT_SUPPORTED"

Swap(role) ==
    /\ Idle /\ contract
    /\ Reply([kind |-> "SWAP", role |-> role], <<[answer |-> SwapAnswer]>>)
    /\ UNCHANGED <<pdoVars, linkVars, vdmVars>>

-----------------------------------------------------------------------------
(* Vendor messages: eval_vdm. *)

FromInitiator(vdm) == vdm.structured /\ vdm.initiator
Identified(vdm) == vdm.single /\ vdm.cmd = "IDENTITY" /\ vdm.standard

(* The product is a power sink device, which version 1.0 does not have.       *)
Identity(ver) == [product |-> IF ver = 0 THEN "UNDEF" ELSE "PSD", objects |-> 4]

VdmAnswer(vdm, ver, min) ==
    CASE ~FromInitiator(vdm) ->
            IF revision = 2 THEN << >> ELSE <<[answer |-> "NOT_SUPPORTED"]>>
      [] FromInitiator(vdm) /\ vdm.single /\ vdm.cmd = "ATTENTION" -> << >>
      [] FromInitiator(vdm) /\ Identified(vdm) ->
            <<[answer |-> "ACK", version |-> ver, minor |-> min, identity |-> Identity(ver)]>>
      [] OTHER -> <<[answer |-> "NAK", version |-> ver, minor |-> min]>>

(* Mutant: the version of the request is taken over. *)
Negotiated_Echoes(own, theirs) == theirs

(* The versions only go down while a contract lasts.                          *)
Negotiated(own, theirs) == Lower(own, theirs)

Vdm(vdm) ==
    /\ Idle /\ contract
    /\ version' = IF FromInitiator(vdm) THEN Negotiated(version, vdm.version) ELSE version
    /\ minor' = IF FromInitiator(vdm) THEN Negotiated(minor, vdm.minor) ELSE minor
    /\ ceiling' = IF FromInitiator(vdm)
                  THEN [version |-> Lower(ceiling.version, vdm.version),
                        minor |-> Lower(ceiling.minor, vdm.minor)]
                  ELSE ceiling
    /\ Reply([kind |-> "VDM", vdm |-> vdm], VdmAnswer(vdm, version', minor'))
    /\ UNCHANGED <<pdoVars, linkVars>>

-----------------------------------------------------------------------------
(* Extended messages, of revision 3 only: app_extd_msg_handler asks for the     *)
(* next chunk, or leaves the message to sln_pd_event_handler.                 *)

(* Mutant: the solution is called although the message is not complete. *)
Skips_Never(message) == FALSE

Skips(message) == message.more

ChunkRequest(message) == IF message.more THEN <<[answer |-> "CHUNK_REQUEST"]>> ELSE << >>

SolutionAnswer(message) ==
    CASE message.msg = "BATTERY_STATUS" ->
            <<[answer |-> "BATTERY_STATUS", valid |-> message.known]>>
      [] message.msg = "BATTERY_CAP" ->
            <<[answer |-> "BATTERY_CAP", valid |-> message.known]>>
      [] message.msg \in ResponseMessages -> << >>
      [] OTHER -> <<[answer |-> "NOT_SUPPORTED"]>>

(* Of the stack and the partner, not of the handlers. *)
SendsExtended == contract /\ revision = 3

ExtendedMessage(message) ==
    /\ Idle /\ SendsExtended
    /\ Reply([kind |-> "EXTENDED", message |-> message],
             ChunkRequest(message) \o
             (IF Skips(message) THEN << >> ELSE SolutionAnswer(message)))
    /\ UNCHANGED <<pdoVars, linkVars, vdmVars>>

-----------------------------------------------------------------------------
LinkEvent ==
    \/ \E r \in Revisions : Connect(r) \/ HardReset(r)
    \/ ContractComplete \/ Disconnect
Evaluation == (\E caps \in Offers : SourceCaps(caps)) \/ CompareCaps \/ SendRequest
Message ==
    \/ \E role \in {"DATA", "POWER", "VCONN"} : Swap(role)
    \/ \E vdm \in Vdms : Vdm(vdm)
    \/ \E message \in Extended : ExtendedMessage(message)

Next == LinkEvent \/ Evaluation \/ Message
Spec == Init /\ [][Next]_vars /\ WF_vars(CompareCaps \/ SendRequest)

-----------------------------------------------------------------------------
(* Safety and progress. *)

(* A partner of revision 2 does not know the message Not_Supported, whichever    *)
(* handler answers and whatever partner was there before.  The handlers of swaps *)
(* and vendor messages look at the revision; those of extended messages do not,  *)
(* and rest on SendsExtended.                                                *)
RevisionIsRespected ==
    \A i \in DOMAIN answers : asked.kind # "CAPS" /\ revision = 2 =>
        answers[i].answer # "NOT_SUPPORTED"

(* A vendor answer has the lowest version that was offered since the contract,  *)
(* never above the revision of the partner, and version 1.0 carries no product *)
(* type of revision 3.                                                       *)
VersionIsAgreed ==
    asked.kind = "VDM" /\ contract =>
        \A i \in DOMAIN answers : answers[i].answer \in {"ACK", "NAK"} =>
            /\ answers[i].version = ceiling.version
            /\ answers[i].minor = ceiling.minor
            /\ ceiling.version <= revision - 2
            /\ answers[i].answer = "ACK" /\ ceiling.version = 0 =>
                  answers[i].identity.product # "PSD"

(* A complete extended request gets one answer, a chunk that is not the last     *)
(* only the request for the next one, and a response message none.            *)
OneAnswer ==
    asked.kind = "EXTENDED" =>
        CASE asked.message.more -> answers = <<[answer |-> "CHUNK_REQUEST"]>>
          [] ~asked.message.more /\ asked.message.msg \in ResponseMessages -> answers = << >>
          [] OTHER -> Len(answers) = 1 /\ answers[1].answer # "CHUNK_REQUEST"

(* Every evaluation ends with a request; only then is anything else answered.   *)
CapsAreAnswered == (asked.kind = "CAPS" /\ ~Idle) ~> (asked.kind = "CAPS" /\ Len(answers) = 1)
=============================================================================
