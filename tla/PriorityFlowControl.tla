------------------------ MODULE PriorityFlowControl ------------------------
(***************************************************************************)
(* Priority flow control between a switch of the simulator and the devices *)
(* at the other end of its links (qbb-net-device.cc, broadcom-node.cc),    *)
(* composed with the buffer accounting of BroadcomMMU.  A packet that      *)
(* reaches the switch makes its egress device check whether the ingress    *)
(* port must pause or may resume; the check is repeated by a timer of that *)
(* egress device while the pause is in force.  A paused class resumes when *)
(* its timer ends or a frame says so.                                      *)
(*                                                                         *)
(* Time is discrete: Tick lets one unit pass and waits for what is due.  A *)
(* peer sends at most one packet per unit.                                 *)
(***************************************************************************)
EXTENDS BroadcomMMU

CONSTANTS
  PgSharedLimit,  \* m_pg_shared_limit_cell
  PgSharedOff,    \* m_pg_shared_limit_cell_off
  PortMaxShared,  \* m_port_max_shared_cell
  PortMinOff,     \* m_port_min_cell_off
  Alpha,          \* m_pg_shared_alpha_cell
  AlphaOffDiff,   \* m_pg_shared_alpha_cell_off_diff
  PfcOnDctcp,     \* m_enable_pfc_on_dctcp
  Modes,          \* values of m_dynamicth
  Sources,        \* ports whose peers send
  Destinations,   \* ports their packets leave by
  PauseTime,      \* m_pausetime
  DataDelay,      \* units a packet travels to the switch
  FrameDelay,     \* units a frame travels to the peer, at most
  FrameJitter     \* of which it may save this many

ASSUME PfcAssumption ==
  /\ Modes \subseteq BOOLEAN /\ PfcOnDctcp \in BOOLEAN
  /\ Sources \subseteq Ports /\ Destinations \subseteq Ports
  /\ {PgSharedLimit, PgSharedOff, PortMaxShared, PortMinOff, Alpha,
      AlphaOffDiff} \subseteq Nat
  /\ 0 \notin Queues                      \* the data is in others (flow.txt: 3)
  /\ PgSharedOff <= PgSharedLimit + 1     \* by 2 packets (broadcom-node.cc:89)
  /\ PauseTime \in Nat \ {0} /\ DataDelay \in Nat
  /\ FrameDelay \in Nat /\ FrameJitter \in 0 .. FrameDelay

VARIABLES
  dynamicth,    \* m_dynamicth of the switch, set by SetNodeType
  pauseRemote,  \* m_pause_remote
  recheckEvt,   \* m_recheckEvt of each egress device: units left, or Off
  event,        \* the Send the switch is in the middle of
  lost,         \* whether admission control has dropped a packet
  frames,       \* pause and resume frames on their way to the peer of a port
  paused,       \* m_paused of the peer of a port
  resumeEvt,    \* m_resumeEvt of the peer of a port: units left, or Off
  wire,         \* packets on their way to the switch
  sent          \* whether the peer has sent in this unit

switchVars == <<dynamicth, pauseRemote, recheckEvt, event, lost, frames>>
peerVars   == <<paused, resumeEvt, wire, sent>>
vars == <<mmuVars, switchVars, peerVars>>

Off == -1
Idle == [step |-> "none"]
Classes == Queues \cup {0}

Init ==
  /\ BufferInit
  /\ dynamicth \in Modes
  /\ pauseRemote = [i \in Ports |-> [q \in Queues |-> FALSE]]
  /\ recheckEvt = [o \in Ports |-> [i \in Ports |-> [q \in Queues |-> Off]]]
  /\ event = Idle
  /\ lost = FALSE
  /\ frames = [i \in Ports |-> <<>>]
  /\ paused = [i \in Ports |-> [c \in Classes |-> FALSE]]
  /\ resumeEvt = [i \in Ports |-> [c \in Classes |-> Off]]
  /\ wire = [i \in Ports |-> <<>>]
  /\ sent = [i \in Ports |-> FALSE]

---------------------------------------------------------------------------
(* Thresholds                                                              *)

\* The classes PFC leaves alone.
Exempt == IF PfcOnDctcp THEN {} ELSE {1}

\* Every class of the ingress port is tested, against the pool of class q.
DynamicPauseClasses(in, q) ==
  {c \in Queues \ Exempt :
     LET above == usedIngressPG[in][c] - PgMin - PortMin
     IN  above > 0 /\ above > Alpha * (SpLimit - usedIngressSP[GetSP(q)])}

GetPauseClasses(in, q) ==
  IF dynamicth THEN DynamicPauseClasses(in, q)
  ELSE IF usedIngressPort[in] > PortMaxShared THEN Classes
  ELSE IF usedIngressPG[in][q] > PgSharedLimit THEN {q} \ Exempt ELSE {}

GetResumeClasses(in, q) ==
  IF dynamicth
  THEN usedIngressPG[in][q] - PgMin - PortMin
         < Alpha * (SpLimit - usedIngressSP[GetSP(q)] - AlphaOffDiff)
  ELSE usedIngressPG[in][q] < PgSharedOff /\ usedIngressPort[in] < PortMinOff

---------------------------------------------------------------------------
(* The switch.  Send runs to its end before anything else happens: the     *)
(* packet is admitted or dropped, the egress device transmits if it can,   *)
(* and then checks the ingress port.                                       *)

\* Mutant of RecheckDelay: the check is repeated when the pause ends.
RecheckAtEnd == PauseTime

\* Mutant of RecheckDelay: the check is not repeated.
RecheckNever == Off

RecheckDelay == PauseTime \div 2

\* left is what is left of the timer that repeats the check.  The resume
\* frame is the first of the loop over the classes: it names class 0.
CheckQueueFull(out, in, q, left) ==
  LET pauses  == GetPauseClasses(in, q)
      resumes == (pauses # {} \/ pauseRemote[in][q]) /\ GetResumeClasses(in, q)
      Frame(classes, time) ==
        [classes |-> classes, time |-> time, due |-> FrameDelay]
  IN  /\ frames' = [frames EXCEPT ![in] =
           @ \o (IF pauses = {} THEN <<>> ELSE <<Frame(pauses, PauseTime)>>)
             \o (IF resumes THEN <<Frame({0}, 0)>> ELSE <<>>)]
      /\ pauseRemote' = [pauseRemote EXCEPT ![in][q] =
                           (@ \/ pauses # {}) /\ ~resumes]
      /\ recheckEvt' = [recheckEvt EXCEPT ![out][in][q] =
                          IF resumes THEN Off
                          ELSE IF pauses # {} THEN RecheckDelay ELSE left]

Send(in) ==
  /\ event = Idle /\ wire[in] # <<>> /\ Head(wire[in]).due = 0
  /\ LET p == Head(wire[in])
     IN  /\ event' = [step |-> "transmit", in |-> in, out |-> p.out, q |-> p.q]
         /\ \/ Admit(in, p.out, p.q, p.size) /\ UNCHANGED lost
            \/ /\ ~CheckIngressAdmission(in, p.q, p.size)
                 \/ ~CheckEgressAdmission(p.out, p.q, p.size)
               /\ lost' = TRUE
               /\ UNCHANGED mmuVars
  /\ wire' = [wire EXCEPT ![in] = Tail(@)]
  /\ UNCHANGED <<dynamicth, pauseRemote, recheckEvt, frames, paused, resumeEvt,
                 sent>>

\* Queue q of the egress device is served, or none (ok is FALSE): the device
\* is busy or all it has is paused.
SendTransmits(out, q, ok) ==
  /\ event.step = "transmit" /\ event.out = out
  /\ IF ok THEN DequeueAndTransmit(out, q) ELSE UNCHANGED mmuVars
  /\ event' = [event EXCEPT !.step = "check"]
  /\ UNCHANGED <<dynamicth, pauseRemote, recheckEvt, lost, frames, peerVars>>

SendChecks ==
  /\ event.step = "check"
  /\ CheckQueueFull(event.out, event.in, event.q,
                    recheckEvt[event.out][event.in][event.q])
  /\ event' = Idle
  /\ UNCHANGED <<mmuVars, dynamicth, lost, peerVars>>

Recheck(out, in, q) ==
  /\ event = Idle /\ recheckEvt[out][in][q] = 0
  /\ CheckQueueFull(out, in, q, Off)
  /\ UNCHANGED <<mmuVars, dynamicth, event, lost, peerVars>>

\* TransmitComplete: the next packet leaves; nothing is checked.
Transmit(out, q) ==
  /\ event = Idle
  /\ DequeueAndTransmit(out, q)
  /\ UNCHANGED <<switchVars, peerVars>>

---------------------------------------------------------------------------
(* The peer of a port                                                      *)

PeerSend(in, out, q, size) ==
  /\ event = Idle /\ ~sent[in] /\ ~paused[in][q]
  /\ sent' = [sent EXCEPT ![in] = TRUE]
  /\ wire' = [wire EXCEPT ![in] =
       Append(@, [out |-> out, q |-> q, size |-> size, due |-> DataDelay])]
  /\ UNCHANGED <<mmuVars, switchVars, paused, resumeEvt>>

\* Mutant of PauseTimer: a timer that runs is cancelled and not started again.
StartOnce(left, time) == IF time > 0 /\ left = Off THEN time ELSE Off

\* Whatever is left of the timer, it is cancelled and, for a pause, restarted.
PauseTimer(left, time) == IF time > 0 THEN time ELSE Off

\* A frame with time 0 resumes the class at once.
ReceiveFrame(in) ==
  /\ event = Idle /\ frames[in] # <<>> /\ Head(frames[in]).due <= FrameJitter
  /\ LET f == Head(frames[in])
     IN  /\ paused' = [paused EXCEPT ![in] =
              [c \in Classes |-> IF c \in f.classes THEN f.time > 0 ELSE @[c]]]
         /\ resumeEvt' = [resumeEvt EXCEPT ![in] =
              [c \in Classes |-> IF c \in f.classes
                                 THEN PauseTimer(@[c], f.time) ELSE @[c]]]
  /\ frames' = [frames EXCEPT ![in] = Tail(@)]
  /\ UNCHANGED <<mmuVars, dynamicth, pauseRemote, recheckEvt, event, lost, wire,
                 sent>>

PauseFinish(in, c) ==
  /\ event = Idle /\ resumeEvt[in][c] = 0
  /\ paused' = [paused EXCEPT ![in][c] = FALSE]
  /\ resumeEvt' = [resumeEvt EXCEPT ![in][c] = Off]
  /\ UNCHANGED <<mmuVars, switchVars, wire, sent>>

---------------------------------------------------------------------------
(* Time                                                                    *)

Elapsed(timer) == IF timer > 0 THEN timer - 1 ELSE timer
Travelled(s) == [k \in DOMAIN s |-> [s[k] EXCEPT !.due = Elapsed(@)]]

NothingDue ==
  \A i \in Ports :
    /\ wire[i] # <<>> => Head(wire[i]).due > 0
    /\ frames[i] # <<>> => Head(frames[i]).due > 0
    /\ \A c \in Classes : resumeEvt[i][c] # 0
    /\ \A o \in Ports, q \in Queues : recheckEvt[o][i][q] # 0

Tick ==
  /\ event = Idle /\ NothingDue
  /\ wire' = [i \in Ports |-> Travelled(wire[i])]
  /\ frames' = [i \in Ports |-> Travelled(frames[i])]
  /\ resumeEvt' = [i \in Ports |-> [c \in Classes |-> Elapsed(resumeEvt[i][c])]]
  /\ recheckEvt' = [o \in Ports |-> [i \in Ports |-> [q \in Queues |->
                      Elapsed(recheckEvt[o][i][q])]]]
  /\ sent' = [i \in Ports |-> FALSE]
  /\ UNCHANGED <<mmuVars, dynamicth, pauseRemote, event, lost, paused>>

---------------------------------------------------------------------------
Serve(out, q) == Transmit(out, q) \/ SendTransmits(out, q, TRUE)

Next ==
  \/ SendChecks \/ Tick
  \/ \E in \in Ports :
       \/ Send(in) \/ ReceiveFrame(in)
       \/ \E c \in Classes : PauseFinish(in, c)
  \/ \E out \in Ports, q \in Queues :
       \/ Serve(out, q) \/ SendTransmits(out, q, FALSE)
       \/ \E in \in Ports : Recheck(out, in, q)
  \/ \E in \in Sources, out \in Destinations, q \in Queues, size \in Sizes :
       PeerSend(in, out, q, size)

Spec == Init /\ [][Next]_vars

\* The simulator runs every event that is due and time passes.  The round
\* robin of an egress device comes to each queue, as long as its own peer
\* does not pause it for ever and its rate exceeds the guaranteed bandwidths.
Fairness ==
  /\ WF_vars(SendChecks) /\ WF_vars(Tick)
  /\ \A i \in Ports :
       /\ WF_vars(Send(i)) /\ WF_vars(ReceiveFrame(i))
       /\ \A c \in Classes : WF_vars(PauseFinish(i, c))
       /\ \A q \in Queues :
            /\ SF_vars(Serve(i, q)) /\ WF_vars(SendTransmits(i, q, FALSE))
            /\ \A o \in Ports : WF_vars(Recheck(o, i, q))

FairSpec == Spec /\ Fairness

---------------------------------------------------------------------------
PfcFrame == [classes : SUBSET Classes, time : {0, PauseTime},
             due : 0 .. FrameDelay]
WirePacket == [out : Ports, q : Queues, size : Sizes, due : 0 .. DataDelay]
Sending == [step : {"transmit", "check"}, in : Ports, out : Ports, q : Queues]

FlowTypes ==
  /\ dynamicth \in Modes
  /\ pauseRemote \in [Ports -> [Queues -> BOOLEAN]]
  /\ recheckEvt \in
       [Ports -> [Ports -> [Queues -> Off .. PauseTime \div 2]]]
  /\ event \in {Idle} \cup Sending
  /\ lost \in BOOLEAN
  /\ frames \in [Ports -> Seq(PfcFrame)]
  /\ paused \in [Ports -> [Classes -> BOOLEAN]]
  /\ resumeEvt \in [Ports -> [Classes -> Off .. PauseTime]]
  /\ wire \in [Ports -> Seq(WirePacket)]
  /\ sent \in [Ports -> BOOLEAN]

TypeOK == BufferTypes /\ FlowTypes

PauseComing(i, q) ==
  \E k \in DOMAIN frames[i] :
    q \in frames[i][k].classes /\ frames[i][k].time > 0

\* With static thresholds, while a priority group is over its limit its class
\* is paused at the peer or will be as soon as a frame arrives: the pause is
\* refreshed before it ends (qbb-net-device.cc:1111), whichever egress device
\* runs the timer and however the queue went up and down meanwhile.
PausedWhileOver ==
  \A i \in Ports, q \in Queues \ Exempt :
    ~dynamicth /\ event = Idle /\ usedIngressPG[i][q] > PgSharedLimit =>
      paused[i][q] \/ PauseComing(i, q)

\* With static thresholds a priority group never exceeds its limit by more than
\* the packet that crosses it and what the peer sends until the pause reaches
\* it, however often the pause is refreshed and by whom (broadcom-node.cc:289,
\* qbb-net-device.cc:1111).
OverrunBounded ==
  \A i \in Ports, q \in Queues \ Exempt :
    ~dynamicth =>
      \E s \in Sizes : usedIngressPG[i][q]
                         <= PgSharedLimit + (DataDelay + FrameDelay + 1) * s

\* With static thresholds no packet of a class under flow control is dropped,
\* whatever other ports take of the pool: the headroom of a priority group is
\* enough for what it may hold (broadcom-node.cc:132).
NoLoss == ~dynamicth => ~lost

\* A class the switch no longer holds paused is not paused at its peer once
\* the frames have arrived: the ON-OFF part of CheckQueueFull resumes it
\* (qbb-net-device.cc:1115).
ResumeIsHeard ==
  \A i \in Ports, q \in Queues :
    event = Idle /\ ~pauseRemote[i][q] /\ frames[i] = <<>> => ~paused[i][q]

\* No pause lasts for ever while the egress devices may transmit: the queues
\* drain, the check finds the limit is no longer exceeded and lets the pause
\* run out, resumed or not (qbb-net-device.cc:1111).
PauseEnds ==
  \A i \in Ports, c \in Classes : paused[i][c] ~> ~paused[i][c]
=============================================================================
