------------------------------ MODULE TrialGate ------------------------------
(***************************************************************************)
(* What an incoming call and an open dashboard do with the state of a      *)
(* trial: src/app/api/v1/telephony/telnyx/answer/route.ts (with            *)
(* src/lib/telnyx.ts) and src/lib/trial-reminder.ts.                       *)
(*                                                                         *)
(* Telnyx announces a ringing call and announces it again until it is      *)
(* acknowledged.  The handler decides once, then waits on one command, or  *)
(* on two, while the subscription, the trial and the number move on; an    *)
(* executed command may look like a failed one.  The owner's two e-mails   *)
(* are sent by tasks outside any request, which stamp the row when SMTP    *)
(* has accepted the message.                                               *)
(***************************************************************************)
CONSTANTS
    Business,
    Number,         \* CallFlow numbers
    Call,           \* call.initiated events, by id
    Dialled,        \* the number that was dialled
    Handler,        \* deliveries handled at the same time
    Status,         \* values of subscriptionStatus
    ForwardTo,      \* TELNYX_FORWARD_TO is configured
    None

Idle == [pc |-> "idle"]

Stage == {"none", "early", "due", "over"}

Waiting ==
    [pc : {"speak"}, call : Call, business : Business, untold : BOOLEAN]
    \cup [pc : {"transfer"}, call : Call, business : Business \cup {None}]

ASSUME GateAssumption ==
    /\ Dialled \in [Call -> Number]
    /\ ForwardTo \in BOOLEAN
    /\ None \notin Business

VARIABLES
    status,         \* column subscriptionStatus
    stage,          \* column trialStartedAt against the clock: not started,
                    \* first two days, third day, expired
    done,           \* businesses at onboardingStep 'done'
    borrower,       \* column assignedNumber, by number
    borrowed,       \* history: every business that has had a number
    active,         \* businesses whose forwardingStatus is active
    stamped,        \* the e-mails whose stamp is set, <<kind, business>>
    sending,        \* the e-mails a task is sending
    told,           \* SMTP: the e-mails it has accepted
    req,            \* the deliveries that wait on Telnyx
    called,         \* Telnyx: calls that have rung
    acked,          \* Telnyx: calls whose event is acknowledged
    transferred,    \* Telnyx: calls connected to the agent
    spoken,         \* Telnyx: calls that heard the message
    excused         \* history: calls announced while their business was not
                    \* blocked, or whose message Telnyx did not confirm

rowVars    == <<status, stage, done, borrower, borrowed, active>>
mailVars   == <<stamped, sending, told>>
telnyxVars == <<called, acked, transferred, spoken, excused>>
vars       == <<rowVars, mailVars, req, telnyxVars>>

Mail == {"ended", "reminder"} \X Business

Pool == INSTANCE NumberOwnership WITH Nobody <- None

TypeOK ==
    /\ status \in [Business -> Status]
    /\ stage \in [Business -> Stage]
    /\ done \subseteq Business
    /\ borrower \in [Number -> Business \cup {None}]
    /\ borrowed \in [Number -> SUBSET Business]
    /\ active \subseteq Business
    /\ stamped \subseteq Mail /\ sending \subseteq Mail /\ told \subseteq Mail
    /\ req \in [Handler -> Waiting \cup {Idle}]
    /\ called \subseteq Call /\ acked \subseteq Call
    /\ transferred \subseteq Call /\ spoken \subseteq Call
    /\ excused \subseteq Call

Init ==
    /\ status \in [Business -> Status]
    /\ stage = [b \in Business |-> "none"]
    /\ done = {}
    /\ borrower = [n \in Number |-> None]
    /\ borrowed = [n \in Number |-> {}]
    /\ active = {}
    /\ stamped = {} /\ sending = {} /\ told = {}
    /\ req = [h \in Handler |-> Idle]
    /\ called = {} /\ acked = {} /\ transferred = {} /\ spoken = {}
    /\ excused = {}

-----------------------------------------------------------------------------
(* describeBillingAccess and callsBlocked.                                 *)

Trialing(b) == stage[b] \in {"early", "due"}

Entitled(b) ==
    \/ status[b] \in {"active", "past_due"}
    \/ status[b] \in {"on_hold", "pending_checkout", "not_started"} /\ Trialing(b)

(* Mutant of Blocked: nobody is.                                           *)
BlockedNever(b) == FALSE

Blocked(b) == b \in done /\ ~Entitled(b)

(* For the history: a call to b may reach the agent.                       *)
MayReachAgent(b) == b \in Business => b \notin done \/ Entitled(b)

-----------------------------------------------------------------------------
(* POST /api/v1/telephony/telnyx/answer.                                   *)

Finish(h) == req' = [req EXCEPT ![h] = Idle]

(* A 200, which may get lost on its way: then the event comes again.       *)
Acknowledge(c) == acked' \in {acked, acked \cup {c}}

(* On to the transfer, or to a 200 when there is nowhere to transfer to.   *)
Onward(h, c, b) ==
    IF ForwardTo
    THEN /\ req' = [req EXCEPT ![h] = [pc |-> "transfer", call |-> c, business |-> b]]
         /\ UNCHANGED acked
    ELSE Finish(h) /\ Acknowledge(c)

Delivered(h, c) ==
    LET b == borrower[Dialled[c]]
    IN  /\ req[h] = Idle
        /\ c \in called \ acked
        /\ \/ /\ b # None /\ Blocked(b)
              /\ req' = [req EXCEPT ![h] = [pc |-> "speak", call |-> c, business |-> b,
                                            untold |-> <<"ended", b>> \notin stamped]]
              /\ UNCHANGED acked
           \/ /\ ~(b # None /\ Blocked(b))
              /\ Onward(h, c, b)
        /\ excused' = IF MayReachAgent(b) THEN excused \cup {c} ELSE excused
        /\ UNCHANGED <<rowVars, mailVars, called, transferred, spoken>>

(* The message is played: the call ends here, and the owner may be told.   *)
SpeakConfirmed(h) ==
    LET c == req[h].call
        mail == <<"ended", req[h].business>>
    IN  /\ req[h].pc = "speak"
        /\ spoken' = spoken \cup {c}
        /\ sending' = IF req[h].untold THEN sending \cup {mail} ELSE sending
        /\ Finish(h)
        /\ Acknowledge(c)
        /\ UNCHANGED <<rowVars, stamped, told, called, transferred, excused>>

(* speakToCaller fails, though the message may be playing: the gate opens. *)
SpeakUnconfirmed(h) ==
    LET c == req[h].call
    IN  /\ req[h].pc = "speak"
        /\ spoken' \in {spoken, spoken \cup {c}}
        /\ excused' = excused \cup {c}
        /\ Onward(h, c, req[h].business)
        /\ UNCHANGED <<rowVars, mailVars, called, transferred>>

(* Mutant of Confirm: the forwarding is confirmed before the outcome is    *)
(* known.                                                                  *)
ConfirmEarly(b, accepted) == active' = active \cup ({b} \ {None})

(* setBusinessForwardingStatus, after a transfer that Telnyx accepted.     *)
Confirm(b, accepted) ==
    active' = IF accepted THEN active \cup ({b} \ {None}) ELSE active

(* Mutant of Respond: a transfer that failed is acknowledged.              *)
RespondOK(c, accepted) == acked' = acked \cup {c}

(* 200, or 500: Telnyx then announces the call again.                      *)
Respond(c, accepted) == IF accepted THEN Acknowledge(c) ELSE UNCHANGED acked

(* The command is executed and confirmed, executed and not confirmed (its  *)
(* answer, or the write of the row, fails), or not executed.  A command    *)
(* repeated within a minute is confirmed and has no effect of its own.     *)
TransferAnswered(h, executed, accepted) ==
    LET c == req[h].call
    IN  /\ req[h].pc = "transfer"
        /\ accepted => executed
        /\ transferred' = IF executed THEN transferred \cup {c} ELSE transferred
        /\ Confirm(req[h].business, accepted)
        /\ Respond(c, accepted)
        /\ Finish(h)
        /\ UNCHANGED <<status, stage, done, borrower, borrowed, mailVars,
                       called, spoken, excused>>

-----------------------------------------------------------------------------
(* The e-mails.                                                            *)

(* A render of the dashboard, on the third day of a trial.                 *)
Render(b) ==
    /\ b \in done
    /\ status[b] \in {"active", "pending_checkout", "not_started"}
    /\ stage[b] = "due"
    /\ <<"reminder", b>> \notin stamped
    /\ sending' = sending \cup {<<"reminder", b>>}
    /\ UNCHANGED <<rowVars, stamped, told, req, telnyxVars>>

(* Mutant of Stamp: the stamp is set whatever SMTP says.                   *)
StampAlways(mail, sent) == stamped' = stamped \cup {mail}

Stamp(mail, sent) == stamped' = IF sent THEN stamped \cup {mail} ELSE stamped

(* SMTP answers, or there is no address or no configuration.  Another task *)
(* may still be sending the same message.                                  *)
MailAnswered(mail, sent) ==
    /\ mail \in sending
    /\ sending' \in {sending, sending \ {mail}}
    /\ told' = IF sent THEN told \cup {mail} ELSE told
    /\ Stamp(mail, sent)
    /\ UNCHANGED <<rowVars, req, telnyxVars>>

(* The process stops; SMTP may have accepted what it was sending.          *)
Crash ==
    /\ req' = [h \in Handler |-> Idle]
    /\ sending' = {}
    /\ told' \in {told \cup accepted : accepted \in SUBSET sending}
    /\ UNCHANGED <<rowVars, stamped, telnyxVars>>

-----------------------------------------------------------------------------
(* Callers, Dodo, the clock, the setup and the pool.                       *)

Rings(c) ==
    /\ called' = called \cup {c}
    /\ UNCHANGED <<rowVars, mailVars, req, acked, transferred, spoken, excused>>

StatusMoves(b, st) ==
    /\ status' = [status EXCEPT ![b] = st]
    /\ UNCHANGED <<stage, done, borrower, borrowed, active, mailVars, req, telnyxVars>>

TimePasses(b, next) ==
    /\ <<stage[b], next>> \in {<<"none", "early">>, <<"early", "due">>, <<"due", "over">>}
    /\ stage' = [stage EXCEPT ![b] = next]
    /\ UNCHANGED <<status, done, borrower, borrowed, active, mailVars, req, telnyxVars>>

(* The setup ends; a step written late may undo it (see Onboarding).       *)
SetupMoves(b) ==
    /\ done' = IF b \in done THEN done \ {b} ELSE done \cup {b}
    /\ UNCHANGED <<status, stage, borrower, borrowed, active, mailVars, req, telnyxVars>>

NumberMoves ==
    /\ Pool!Next
    /\ borrowed' = [n \in Number |-> borrowed[n] \cup ({borrower'[n]} \ {None})]
    /\ UNCHANGED <<status, stage, done, active, mailVars, req, telnyxVars>>

Next ==
    \/ \E h \in Handler, c \in Call : Delivered(h, c)
    \/ \E h \in Handler : SpeakConfirmed(h) \/ SpeakUnconfirmed(h)
    \/ \E h \in Handler, executed, accepted \in BOOLEAN :
           TransferAnswered(h, executed, accepted)
    \/ \E b \in Business : Render(b) \/ SetupMoves(b)
    \/ \E mail \in Mail, sent \in BOOLEAN : MailAnswered(mail, sent)
    \/ Crash
    \/ \E c \in Call : Rings(c)
    \/ \E b \in Business, st \in Status : StatusMoves(b, st)
    \/ \E b \in Business, next \in Stage : TimePasses(b, next)
    \/ NumberMoves

Spec == Init /\ [][Next]_vars

(* Telnyx announces a call until it is acknowledged, answers every command *)
(* and carries out one that it is sent again and again; the process does   *)
(* not die every time.                                                     *)
Announced ==
    \A c \in Call :
        /\ SF_vars(\E h \in Handler : Delivered(h, c))
        /\ SF_vars(\E h \in Handler : req[h].pc = "speak" /\ req[h].call = c
                                      /\ (SpeakConfirmed(h) \/ SpeakUnconfirmed(h)))
        /\ SF_vars(\E h \in Handler : req[h].pc = "transfer" /\ req[h].call = c
                                      /\ TransferAnswered(h, TRUE, TRUE))

LiveSpec == Spec /\ Announced

-----------------------------------------------------------------------------
(* A call of a blocked business reaches the agent only through a door that *)
(* the code leaves open: it was announced while the business was entitled, *)
(* or not set up, or Telnyx would not confirm the message ("must NOT reach *)
(* the AI agent", "Fails open", route.ts:161-166).                         *)
AgentGated == transferred \subseteq excused

(* "only a transfer Telnyx accepted may confirm forwarding as active": an  *)
(* active business has had a number on which a call went through, however  *)
(* the number and the deliveries have moved meanwhile.                     *)
ForwardingProven ==
    \A b \in active : \E c \in transferred : b \in borrowed[Dialled[c]]

(* "the stamp is written only after a successful send": no owner is left   *)
(* without an e-mail by a stamp.                                           *)
StampMeansTold == stamped \subseteq told

(* "a real caller is never stranded by a provider hiccup": a call reaches  *)
(* the agent or hears the message, whatever fails, dies or changes while   *)
(* it rings.                                                               *)
CallerReached == \A c \in Call : c \in called ~> c \in transferred \cup spoken
=============================================================================
