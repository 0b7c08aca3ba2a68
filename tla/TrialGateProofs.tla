--------------------------- MODULE TrialGateProofs ---------------------------
(***************************************************************************)
(* Proofs about TrialGate, for any number of businesses, numbers, calls    *)
(* and handlers.  A handler acts on what it read before its waits; the     *)
(* invariant says what of that is still true when it acts (Sound).         *)
(***************************************************************************)
EXTENDS TrialGate, TLAPS

Sound(w) ==
    /\ w.pc = "transfer" => w.call \in excused
    /\ w.pc # "idle" /\ w.business # None => w.business \in borrowed[Dialled[w.call]]

InFlight == \A h \in Handler : Sound(req[h])

BorrowerRemembered ==
    \A n \in Number : borrower[n] # None => borrower[n] \in borrowed[n]

IInv ==
    /\ TypeOK
    /\ AgentGated
    /\ ForwardingProven
    /\ StampMeansTold
    /\ InFlight
    /\ BorrowerRemembered

LEMMA InitInv == Init => IInv
<1> SUFFICES ASSUME Init PROVE IInv
  OBVIOUS
<1>1. TypeOK
  BY DEF Init, TypeOK, Stage
<1>2. AgentGated /\ ForwardingProven /\ StampMeansTold /\ BorrowerRemembered
  BY DEF Init, AgentGated, ForwardingProven, StampMeansTold, BorrowerRemembered
<1>3. InFlight
  BY DEF Init, InFlight, Sound, Idle
<1>4. QED BY <1>1, <1>2, <1>3 DEF IInv

(* What a delivery that waits holds.                                       *)
LEMMA WaitingFields ==
    ASSUME NEW w \in Waiting \cup {Idle}
    PROVE  /\ w.pc = "speak" => w.call \in Call /\ w.business \in Business
           /\ w.pc = "transfer" => w.call \in Call /\ w.business \in Business \cup {None}
           /\ w.pc \in {"idle", "speak", "transfer"}
BY DEF Waiting, Idle

(* One handler moves on, and the rest of the state only grows or stays.    *)
LEMMA HandlerMoves ==
    ASSUME IInv, NEW h \in Handler, NEW w \in Waiting \cup {Idle},
           req' = [req EXCEPT ![h] = w],
           w.pc = "transfer" => w.call \in excused',
           w.pc # "idle" /\ w.business # None => w.business \in borrowed[Dialled[w.call]],
           acked' \subseteq Call, excused \subseteq excused', excused' \subseteq Call,
           spoken' \subseteq Call, transferred' \subseteq excused',
           sending' \subseteq Mail, transferred \subseteq transferred',
           active' \subseteq Business,
           \A b \in active' \ active : \E c \in transferred' : b \in borrowed[Dialled[c]],
           UNCHANGED <<status, stage, done, borrower, borrowed, stamped, told, called>>
    PROVE  IInv'
<1>1. TypeOK'
  BY DEF IInv, TypeOK
<1>2. AgentGated' /\ StampMeansTold' /\ BorrowerRemembered'
  BY DEF IInv, AgentGated, StampMeansTold, BorrowerRemembered
<1>3. ForwardingProven'
  <2>1. ASSUME NEW b \in active' PROVE \E c \in transferred' : b \in borrowed'[Dialled[c]]
    <3>1. CASE b \in active
      BY <3>1 DEF IInv, ForwardingProven
    <3>2. CASE b \notin active
      BY <2>1, <3>2
    <3>3. QED BY <3>1, <3>2
  <2>2. QED BY <2>1 DEF ForwardingProven
<1>4. InFlight'
  <2>1. ASSUME NEW g \in Handler, g # h PROVE Sound(req[g])'
    <3>1. req'[g] = req[g] /\ Sound(req[g])
      BY <2>1 DEF IInv, TypeOK, InFlight
    <3>2. QED BY <3>1 DEF Sound
  <2>2. Sound(req[h])'
    <3>1. req'[h] = w
      BY DEF IInv, TypeOK
    <3>2. QED BY <3>1 DEF Sound
  <2>3. QED BY <2>1, <2>2 DEF InFlight
<1>5. QED BY <1>1, <1>2, <1>3, <1>4 DEF IInv

(* Onward is one of two moves.                                             *)
LEMMA OnwardMoves ==
    ASSUME TypeOK, NEW h \in Handler, NEW c \in Call, NEW b \in Business \cup {None},
           Onward(h, c, b)
    PROVE  /\ acked' \subseteq Call
           /\ \/ req' = [req EXCEPT ![h] = Idle]
              \/ req' = [req EXCEPT ![h] = [pc |-> "transfer", call |-> c, business |-> b]]
BY DEF Onward, Finish, Acknowledge, TypeOK

LEMMA OnwardKeeps ==
    ASSUME IInv, NEW h \in Handler, NEW c \in Call, NEW b \in Business \cup {None},
           Onward(h, c, b), c \in excused', excused' = excused \cup {c},
           b # None => b \in borrowed[Dialled[c]], spoken' \subseteq Call,
           UNCHANGED <<rowVars, mailVars, called, transferred>>
    PROVE  IInv'
<1> DEFINE w == [pc |-> "transfer", call |-> c, business |-> b]
<1>1. w \in Waiting /\ w.pc = "transfer" /\ w.call = c /\ w.business = b
  BY DEF Waiting
<1>2. Idle \in Waiting \cup {Idle} /\ Idle.pc = "idle"
  BY DEF Idle
<1>3. /\ acked' \subseteq Call /\ spoken' \subseteq Call
      /\ excused \subseteq excused' /\ excused' \subseteq Call
      /\ transferred' \subseteq excused' /\ transferred \subseteq transferred'
      /\ sending' \subseteq Mail /\ active' \subseteq Business /\ active' \ active = {}
      /\ UNCHANGED <<status, stage, done, borrower, borrowed, stamped, told, called>>
  BY OnwardMoves DEF IInv, TypeOK, AgentGated, rowVars, mailVars
<1>4. CASE req' = [req EXCEPT ![h] = Idle]
  BY <1>2, <1>3, <1>4, HandlerMoves
<1>5. CASE req' = [req EXCEPT ![h] = w]
  <2> HIDE DEF w
  <2>1. QED BY <1>1, <1>3, <1>5, HandlerMoves
<1>6. QED BY <1>4, <1>5, OnwardMoves DEF IInv

LEMMA DeliveredKeeps ==
    ASSUME IInv, NEW h \in Handler, NEW c \in Call, Delivered(h, c)
    PROVE  IInv'
<1> DEFINE b == borrower[Dialled[c]]
<1>1. /\ b \in Business \cup {None}
      /\ b # None => b \in Business /\ b \in borrowed[Dialled[c]]
  BY GateAssumption DEF IInv, TypeOK, BorrowerRemembered
<1>2. UNCHANGED <<rowVars, mailVars, called, transferred, spoken>>
  BY DEF Delivered
<1>3. CASE b # None /\ Blocked(b)
  <2> DEFINE w == [pc |-> "speak", call |-> c, business |-> b,
                   untold |-> <<"ended", b>> \notin stamped]
  <2>1. w \in Waiting /\ w.pc = "speak" /\ w.call = c /\ w.business = b
    BY <1>1, <1>3 DEF Waiting
  <2>2. req' = [req EXCEPT ![h] = w] /\ UNCHANGED acked
    BY <1>3 DEF Delivered
  <2>3. excused' \in {excused, excused \cup {c}}
    BY DEF Delivered
  <2>4. /\ acked' \subseteq Call /\ spoken' \subseteq Call
        /\ excused \subseteq excused' /\ excused' \subseteq Call
        /\ transferred' \subseteq excused' /\ transferred \subseteq transferred'
        /\ sending' \subseteq Mail /\ active' \subseteq Business /\ active' \ active = {}
        /\ UNCHANGED <<status, stage, done, borrower, borrowed, stamped, told, called>>
    BY <1>2, <2>2, <2>3 DEF IInv, TypeOK, AgentGated, rowVars, mailVars
  <2> HIDE DEF w
  <2>5. QED BY <1>1, <2>1, <2>2, <2>4, HandlerMoves
<1>4. CASE ~(b # None /\ Blocked(b))
  <2>1. MayReachAgent(b)
    BY <1>4, GateAssumption DEF Blocked, MayReachAgent
  <2>2. Onward(h, c, b) /\ excused' = excused \cup {c}
    BY <1>4, <2>1 DEF Delivered
  <2>3. spoken' \subseteq Call
    BY <1>2 DEF IInv, TypeOK
  <2> HIDE DEF b
  <2>4. QED BY <1>1, <1>2, <2>2, <2>3, OnwardKeeps
<1>5. QED BY <1>3, <1>4

LEMMA SpeakUnconfirmedKeeps ==
    ASSUME IInv, NEW h \in Handler, SpeakUnconfirmed(h)
    PROVE  IInv'
<1>1. /\ req[h].pc = "speak" /\ req[h].call \in Call /\ req[h].business \in Business
      /\ req[h].business \in borrowed[Dialled[req[h].call]]
  BY WaitingFields, GateAssumption DEF SpeakUnconfirmed, IInv, TypeOK, InFlight, Sound
<1>2. /\ Onward(h, req[h].call, req[h].business)
      /\ excused' = excused \cup {req[h].call}
      /\ spoken' \in {spoken, spoken \cup {req[h].call}}
      /\ UNCHANGED <<rowVars, mailVars, called, transferred>>
  BY DEF SpeakUnconfirmed
<1>3. spoken' \subseteq Call
  BY <1>1, <1>2 DEF IInv, TypeOK
<1>4. QED BY <1>1, <1>2, <1>3, OnwardKeeps

LEMMA SpeakConfirmedKeeps ==
    ASSUME IInv, NEW h \in Handler, SpeakConfirmed(h)
    PROVE  IInv'
<1>1. req[h].pc = "speak" /\ req[h].call \in Call /\ req[h].business \in Business
  BY WaitingFields DEF SpeakConfirmed, IInv, TypeOK
<1>2. /\ spoken' = spoken \cup {req[h].call}
      /\ sending' \in {sending, sending \cup {<<"ended", req[h].business>>}}
      /\ req' = [req EXCEPT ![h] = Idle]
      /\ acked' \in {acked, acked \cup {req[h].call}}
      /\ UNCHANGED <<rowVars, stamped, told, called, transferred, excused>>
  BY DEF SpeakConfirmed, Finish, Acknowledge
<1>3. <<"ended", req[h].business>> \in Mail
  BY <1>1 DEF Mail
<1>4. Idle \in Waiting \cup {Idle} /\ Idle.pc = "idle"
  BY DEF Idle
<1>5. /\ acked' \subseteq Call /\ spoken' \subseteq Call
      /\ excused \subseteq excused' /\ excused' \subseteq Call
      /\ transferred' \subseteq excused' /\ transferred \subseteq transferred'
      /\ sending' \subseteq Mail /\ active' \subseteq Business /\ active' \ active = {}
      /\ UNCHANGED <<status, stage, done, borrower, borrowed, stamped, told, called>>
  BY <1>1, <1>2, <1>3 DEF IInv, TypeOK, AgentGated, rowVars
<1>6. QED BY <1>2, <1>4, <1>5, HandlerMoves

LEMMA TransferAnsweredKeeps ==
    ASSUME IInv, NEW h \in Handler, NEW executed \in BOOLEAN, NEW accepted \in BOOLEAN,
           TransferAnswered(h, executed, accepted)
    PROVE  IInv'
<1> DEFINE c == req[h].call
           b == req[h].business
<1>1. /\ c \in Call /\ b \in Business \cup {None} /\ c \in excused
      /\ b # None => b \in borrowed[Dialled[c]]
  BY WaitingFields DEF TransferAnswered, IInv, TypeOK, InFlight, Sound
<1>2. /\ accepted => executed
      /\ transferred' = IF executed THEN transferred \cup {c} ELSE transferred
      /\ active' = IF accepted THEN active \cup ({b} \ {None}) ELSE active
      /\ acked' \in {acked, acked \cup {c}}
      /\ req' = [req EXCEPT ![h] = Idle]
      /\ UNCHANGED <<status, stage, done, borrower, borrowed, mailVars,
                     called, spoken, excused>>
  BY DEF TransferAnswered, Confirm, Respond, Acknowledge, Finish
<1>3. Idle \in Waiting \cup {Idle} /\ Idle.pc = "idle"
  BY DEF Idle
<1> HIDE DEF c, b
<1>4. /\ acked' \subseteq Call /\ spoken' \subseteq Call
      /\ excused \subseteq excused' /\ excused' \subseteq Call
      /\ transferred' \subseteq excused' /\ transferred \subseteq transferred'
      /\ sending' \subseteq Mail /\ active' \subseteq Business
      /\ UNCHANGED <<status, stage, done, borrower, borrowed, stamped, told, called>>
  BY <1>1, <1>2 DEF IInv, TypeOK, AgentGated, mailVars
<1>5. \A a \in active' \ active : \E d \in transferred' : a \in borrowed[Dialled[d]]
  BY <1>1, <1>2
<1>6. QED BY <1>2, <1>3, <1>4, <1>5, HandlerMoves

(* What leaves the deliveries and the calls alone.                         *)
LEMMA OthersKeep ==
    ASSUME IInv, TypeOK', UNCHANGED <<active, req, transferred, excused>>,
           \A n \in Number : borrowed[n] \subseteq borrowed'[n],
           BorrowerRemembered', StampMeansTold'
    PROVE  IInv'
<1>1. AgentGated'
  BY DEF IInv, AgentGated
<1>2. ForwardingProven'
  <2>1. ASSUME NEW b \in active PROVE \E c \in transferred : b \in borrowed'[Dialled[c]]
    <3>1. PICK c \in transferred : b \in borrowed[Dialled[c]]
      BY DEF IInv, ForwardingProven
    <3>2. c \in Call /\ Dialled[c] \in Number
      BY <3>1, GateAssumption DEF IInv, TypeOK
    <3>3. QED BY <3>1, <3>2
  <2>2. QED BY <2>1 DEF ForwardingProven
<1>3. InFlight'
  <2>1. ASSUME NEW h \in Handler PROVE Sound(req[h])'
    <3>1. Sound(req[h]) /\ req'[h] = req[h]
      BY DEF IInv, InFlight
    <3>2. req[h].pc # "idle" => Dialled[req[h].call] \in Number
      BY WaitingFields, GateAssumption DEF IInv, TypeOK
    <3>3. QED BY <3>1, <3>2 DEF Sound
  <2>2. QED BY <2>1 DEF InFlight
<1>4. QED BY <1>1, <1>2, <1>3 DEF IInv

LEMMA NumberMovesKeeps ==
    ASSUME IInv, NumberMoves
    PROVE  IInv'
<1>1. /\ borrower' \in [Number -> Business \cup {None}]
      /\ borrowed' = [n \in Number |-> borrowed[n] \cup ({borrower'[n]} \ {None})]
      /\ UNCHANGED <<status, stage, done, active, mailVars, req, telnyxVars>>
  BY DEF NumberMoves, Pool!Next, Pool!Lend, Pool!GiveBack, IInv, TypeOK
<1>2. TypeOK'
  BY <1>1 DEF IInv, TypeOK, mailVars, telnyxVars
<1>3. \A n \in Number : borrowed[n] \subseteq borrowed'[n]
  BY <1>1
<1>4. BorrowerRemembered' /\ StampMeansTold'
  BY <1>1 DEF IInv, BorrowerRemembered, StampMeansTold, mailVars
<1>5. QED BY <1>1, <1>2, <1>3, <1>4, OthersKeep DEF telnyxVars

LEMMA CrashKeeps ==
    ASSUME IInv, Crash
    PROVE  IInv'
<1>1. /\ req' = [h \in Handler |-> Idle]
      /\ sending' = {} /\ told \subseteq told' /\ told' \subseteq told \cup sending
      /\ UNCHANGED <<rowVars, stamped, telnyxVars>>
  BY DEF Crash
<1>2. TypeOK'
  BY <1>1 DEF IInv, TypeOK, rowVars, telnyxVars
<1>3. AgentGated' /\ ForwardingProven' /\ StampMeansTold' /\ BorrowerRemembered'
  BY <1>1 DEF IInv, AgentGated, ForwardingProven, StampMeansTold, BorrowerRemembered,
              rowVars, telnyxVars
<1>4. InFlight'
  BY <1>1 DEF InFlight, Sound, Idle
<1>5. QED BY <1>2, <1>3, <1>4 DEF IInv

(* The e-mails, and what moves without a handler.                          *)
LEMMA MailKeeps ==
    ASSUME IInv, NEW mail \in Mail, NEW sent \in BOOLEAN, MailAnswered(mail, sent)
    PROVE  IInv'
<1>1. /\ sending' \subseteq Mail
      /\ told' = IF sent THEN told \cup {mail} ELSE told
      /\ stamped' = IF sent THEN stamped \cup {mail} ELSE stamped
      /\ UNCHANGED <<rowVars, req, telnyxVars>>
  BY DEF MailAnswered, Stamp, IInv, TypeOK
<1>2. TypeOK'
  BY <1>1 DEF IInv, TypeOK, rowVars, telnyxVars
<1>3. StampMeansTold' /\ BorrowerRemembered'
  BY <1>1 DEF IInv, StampMeansTold, BorrowerRemembered, rowVars
<1>4. QED BY <1>1, <1>2, <1>3, OthersKeep DEF rowVars, telnyxVars

LEMMA WorldKeeps ==
    ASSUME IInv,
           UNCHANGED <<borrower, borrowed, active, stamped, told, req,
                       acked, transferred, spoken, excused>>,
           status' \in [Business -> Status], stage' \in [Business -> Stage],
           done' \subseteq Business, sending' \subseteq Mail, called' \subseteq Call
    PROVE  IInv'
<1>1. TypeOK'
  BY DEF IInv, TypeOK
<1>2. StampMeansTold' /\ BorrowerRemembered'
  BY DEF IInv, StampMeansTold, BorrowerRemembered
<1>3. QED BY <1>1, <1>2, OthersKeep

LEMMA WorldMovesKeep ==
    ASSUME IInv,
           \/ \E b \in Business : Render(b) \/ SetupMoves(b)
           \/ \E c \in Call : Rings(c)
           \/ \E b \in Business, st \in Status : StatusMoves(b, st)
           \/ \E b \in Business, next \in Stage : TimePasses(b, next)
           \/ UNCHANGED vars
    PROVE  IInv'
<1>1. ASSUME NEW b \in Business, Render(b) PROVE IInv'
  BY <1>1, WorldKeeps DEF Render, Mail, IInv, TypeOK, rowVars, telnyxVars
<1>2. ASSUME NEW b \in Business, SetupMoves(b) PROVE IInv'
  BY <1>2, WorldKeeps DEF SetupMoves, IInv, TypeOK, mailVars, telnyxVars
<1>3. ASSUME NEW c \in Call, Rings(c) PROVE IInv'
  BY <1>3, WorldKeeps DEF Rings, IInv, TypeOK, rowVars, mailVars
<1>4. ASSUME NEW b \in Business, NEW st \in Status, StatusMoves(b, st) PROVE IInv'
  BY <1>4, WorldKeeps DEF StatusMoves, IInv, TypeOK, mailVars, telnyxVars
<1>5. ASSUME NEW b \in Business, NEW next \in Stage, TimePasses(b, next) PROVE IInv'
  BY <1>5, WorldKeeps DEF TimePasses, IInv, TypeOK, mailVars, telnyxVars
<1>6. CASE UNCHANGED vars
  BY <1>6, WorldKeeps DEF vars, IInv, TypeOK, rowVars, mailVars, telnyxVars
<1>7. QED BY <1>1, <1>2, <1>3, <1>4, <1>5, <1>6

LEMMA NextKeeps == IInv /\ [Next]_vars => IInv'
<1> SUFFICES ASSUME IInv, [Next]_vars PROVE IInv'
  OBVIOUS
<1>1. ASSUME NEW h \in Handler, NEW c \in Call, Delivered(h, c) PROVE IInv'
  BY <1>1, DeliveredKeeps
<1>2. ASSUME NEW h \in Handler, SpeakConfirmed(h) \/ SpeakUnconfirmed(h) PROVE IInv'
  BY <1>2, SpeakConfirmedKeeps, SpeakUnconfirmedKeeps
<1>3. ASSUME NEW h \in Handler, NEW executed \in BOOLEAN, NEW accepted \in BOOLEAN,
             TransferAnswered(h, executed, accepted)
      PROVE  IInv'
  BY <1>3, TransferAnsweredKeeps
<1>4. ASSUME NEW mail \in Mail, NEW sent \in BOOLEAN, MailAnswered(mail, sent) PROVE IInv'
  BY <1>4, MailKeeps
<1>5. CASE Crash \/ NumberMoves
  BY <1>5, CrashKeeps, NumberMovesKeeps
<1>6. QED BY <1>1, <1>2, <1>3, <1>4, <1>5, WorldMovesKeep DEF Next

LEMMA AlwaysInv == Spec => []IInv
BY InitInv, NextKeeps, PTL DEF Spec

(* Every reachable state is well typed: no unattributed call confirms a    *)
(* forwarding.                                                             *)
THEOREM Types == Spec => []TypeOK
<1>1. IInv => TypeOK
  BY DEF IInv
<1>2. QED BY <1>1, AlwaysInv, PTL

(* The agent is reached only through the doors the code leaves open.       *)
THEOREM GateHolds == Spec => []AgentGated
<1>1. IInv => AgentGated
  BY DEF IInv
<1>2. QED BY <1>1, AlwaysInv, PTL

(* A forwarding is active only where a call went through.                  *)
THEOREM ActiveIsProven == Spec => []ForwardingProven
<1>1. IInv => ForwardingProven
  BY DEF IInv
<1>2. QED BY <1>1, AlwaysInv, PTL

(* A stamp is set only for an e-mail that SMTP has accepted.               *)
THEOREM StampsAreTrue == Spec => []StampMeansTold
<1>1. IInv => StampMeansTold
  BY DEF IInv
<1>2. QED BY <1>1, AlwaysInv, PTL
=============================================================================
