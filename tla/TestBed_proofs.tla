---------------------------- MODULE TestBed_proofs ----------------------------
(***************************************************************************)
(* Proofs about the test bed, for any number of clients and servers, any   *)
(* receive queue and any number of completions in a poll: the counts of    *)
(* the servers, and what is left when a server ends.                       *)
(***************************************************************************)
EXTENDS TestBed, NumberFacts, TLAPS

\* The counts of one server: before it listens it has no receives.
Counts(i) ==
  /\ server[i] \in {"absent", "loading"} => posted[i] = 0 /\ done[i] = 0
  /\ server[i] \in {"listening", "polling", "ended"} => posted[i] + done[i] = Depth
  /\ server[i] # "failed" => iters[i] = Iters - (sent[i] - done[i])

\* The script starts each server once.
Started ==
  waiter[1] = "launch" => \A i \in Pairs : waiter[2] <= i => server[i] = "absent"

IndInv == TypeOK /\ (\A i \in Pairs : Counts(i)) /\ Started

\* What is used of the constants.
LEMMA Constants ==
  /\ N \in Nat \ {0} /\ Pairs \subseteq Nat /\ Segments \in Nat /\ Iters \in Nat
  /\ Depth \in Nat /\ MaxPoll \in Nat /\ PipeCap \in Nat /\ MaxLines \in Nat
BY TestBedAssumption DEF Pairs

\* The next process of a loop, or the first one of the next phase.
LEMMA StepPair ==
  ASSUME NEW phase, NEW next, NEW i \in Pairs
  PROVE  /\ Step(phase, i, next) \in {phase, next} \X Pairs
         /\ Step(phase, i, next) = <<phase, i + 1>> \/ Step(phase, i, next) = <<next, 1>>
<1>1. N \in Nat \ {0} BY Constants
<1>2. CASE i < N
  <2>1. i + 1 \in Pairs BY <1>1, <1>2 DEF Pairs
  <2> QED BY <1>2, <2>1 DEF Step
<1>3. CASE ~(i < N)
  <2>1. 1 \in Pairs BY <1>1 DEF Pairs
  <2> QED BY <1>3, <2>1 DEF Step
<1> QED BY <1>2, <1>3

\* Nothing is posted before a server is started.
LEMMA InitInv == Init => IndInv
<1> SUFFICES ASSUME Init PROVE IndInv OBVIOUS
<1>1. /\ starter = <<"launch", 1>> /\ waiter = <<"launch", 1>>
      /\ client = [i \in Pairs |-> "absent"] /\ server = [i \in Pairs |-> "absent"]
      /\ begun \in [Pairs -> BOOLEAN] /\ sent = [i \in Pairs |-> 0]
      /\ lines \in [Pairs -> 0 .. MaxLines] /\ pipe = [i \in Pairs |-> 0]
      /\ posted = [i \in Pairs |-> 0] /\ done = [i \in Pairs |-> 0]
      /\ iters = [i \in Pairs |-> Iters]
  BY DEF Init
<1>2. 1 \in Pairs BY Constants DEF Pairs
<1>3. TypeOK BY <1>1, <1>2, Constants DEF TypeOK
<1>4. ASSUME NEW i \in Pairs PROVE Counts(i)
  <2>1. /\ server[i] = "absent" /\ posted[i] = 0 /\ done[i] = 0 /\ sent[i] = 0
        /\ iters[i] = Iters
    BY <1>1
  <2> QED BY <2>1, Constants DEF Counts
<1>5. Started BY <1>1 DEF Started
<1> QED BY <1>3, <1>4, <1>5 DEF IndInv

---------------------------------------------------------------------------
\* Steps that leave the servers alone.
LEMMA ClientSideInv ==
  ASSUME IndInv, UNCHANGED <<waiter, sent, serverVars>>,
         starter' \in {"launch", "key", "kill", "wait", "over"} \X Pairs,
         client' \in [Pairs ->
           {"absent", "loading", "connecting", "ready"} \cup Gone],
         begun' \in [Pairs -> BOOLEAN], lines' \in [Pairs -> 0 .. MaxLines],
         pipe' \in [Pairs -> 0 .. PipeCap]
  PROVE  IndInv'
<1>1. UNCHANGED <<waiter, sent, server, posted, done, iters>> BY DEF serverVars
<1>2. TypeOK' BY <1>1 DEF IndInv, TypeOK
<1> QED BY <1>1, <1>2 DEF IndInv, Counts, Started

\* The script of the clients.
LEMMA StarterInv ==
  ASSUME IndInv,
         KeyPressed \/ \E i \in Pairs : LaunchClient(i) \/ Kill(i) \/ Wait(i)
  PROVE  IndInv'
<1> DEFINE Phases == {"launch", "key", "kill", "wait", "over"}
           States == {"absent", "loading", "connecting", "ready"} \cup Gone
<1>1. /\ starter \in Phases \X Pairs /\ client \in [Pairs -> States]
      /\ begun \in [Pairs -> BOOLEAN] /\ lines \in [Pairs -> 0 .. MaxLines]
      /\ pipe \in [Pairs -> 0 .. PipeCap]
  BY DEF IndInv, TypeOK
<1>2. /\ "loading" \in States /\ "killed" \in States
      /\ 1 \in Pairs /\ 0 \in 0 .. PipeCap
  BY Constants DEF Gone, Pairs
<1>3. CASE KeyPressed
  <2>1. /\ starter' = <<"kill", 1>> /\ UNCHANGED <<waiter, sent, serverVars>>
        /\ UNCHANGED <<client, begun, lines, pipe>>
    BY <1>3 DEF KeyPressed, clientVars
  <2>2. starter' \in Phases \X Pairs BY <1>2, <2>1
  <2> QED BY <1>1, <2>1, <2>2, ClientSideInv
<1>4. ASSUME NEW i \in Pairs, LaunchClient(i) PROVE IndInv'
  <2>1. /\ starter' = Step("launch", i, "key")
        /\ client' = [client EXCEPT ![i] = "loading"]
        /\ UNCHANGED <<waiter, begun, lines, pipe, sent, serverVars>>
    BY <1>4 DEF LaunchClient
  <2>2. starter' \in Phases \X Pairs BY <2>1, StepPair
  <2> HIDE DEF States
  <2>3. client' \in [Pairs -> States] BY <1>1, <1>2, <2>1
  <2> QED BY <1>1, <2>1, <2>2, <2>3, ClientSideInv DEF States
<1>5. ASSUME NEW i \in Pairs, Kill(i) PROVE IndInv'
  <2>1. /\ starter' = Step("kill", i, "wait")
        /\ client' = [client EXCEPT ![i] = "killed"] \/ client' = client
        /\ begun' = [begun EXCEPT ![i] = @ \/ client[i] \notin Gone \cup {"loading"}]
        /\ UNCHANGED <<waiter, lines, pipe, sent, serverVars>>
    BY <1>5 DEF Kill
  <2>2. starter' \in Phases \X Pairs BY <2>1, StepPair
  <2> HIDE DEF States
  <2>3. client' \in [Pairs -> States] BY <1>1, <1>2, <2>1
  <2>4. begun' \in [Pairs -> BOOLEAN] BY <1>1, <2>1
  <2> QED BY <1>1, <2>1, <2>2, <2>3, <2>4, ClientSideInv DEF States
<1>6. ASSUME NEW i \in Pairs, Wait(i) PROVE IndInv'
  <2>1. /\ starter' = Step("wait", i, "over")
        /\ pipe' = [pipe EXCEPT ![i] = 0]
        /\ UNCHANGED <<waiter, client, begun, lines, sent, serverVars>>
    BY <1>6 DEF Wait
  <2>2. starter' \in Phases \X Pairs BY <2>1, StepPair
  <2>3. pipe' \in [Pairs -> 0 .. PipeCap] BY <1>1, <1>2, <2>1
  <2> QED BY <1>1, <2>1, <2>2, <2>3, ClientSideInv
<1> QED BY <1>3, <1>4, <1>5, <1>6

\* A client, while its server stays as it is.
LEMMA ClientInv ==
  ASSUME IndInv, NEW i \in Pairs, InstallHandler(i) \/ Write(i) \/ ClientEnds(i)
  PROVE  IndInv'
<1> DEFINE States == {"absent", "loading", "connecting", "ready"} \cup Gone
<1>1. /\ starter \in {"launch", "key", "kill", "wait", "over"} \X Pairs
      /\ client \in [Pairs -> States]
      /\ begun \in [Pairs -> BOOLEAN] /\ lines \in [Pairs -> 0 .. MaxLines]
      /\ pipe \in [Pairs -> 0 .. PipeCap]
  BY DEF IndInv, TypeOK
<1>2. "connecting" \in States /\ "ended" \in States BY DEF Gone
<1>3. CASE InstallHandler(i)
  <2>1. /\ client' = [client EXCEPT ![i] = "connecting"]
        /\ UNCHANGED <<starter, waiter, begun, lines, pipe, sent, serverVars>>
    BY <1>3 DEF InstallHandler
  <2> HIDE DEF States
  <2>2. client' \in [Pairs -> States] BY <1>1, <1>2, <2>1
  <2> QED BY <1>1, <2>1, <2>2, ClientSideInv DEF States
<1>4. CASE Write(i)
  <2>1. /\ lines[i] > 0 /\ pipe[i] < PipeCap
        /\ lines' = [lines EXCEPT ![i] = @ - 1]
        /\ pipe' = [pipe EXCEPT ![i] = @ + 1]
        /\ UNCHANGED <<starter, waiter, client, begun, sent, serverVars>>
    BY <1>4 DEF Write
  <2>2. lines[i] - 1 \in 0 .. MaxLines /\ pipe[i] + 1 \in 0 .. PipeCap
    BY <1>1, <2>1, Constants
  <2>3. lines' \in [Pairs -> 0 .. MaxLines] /\ pipe' \in [Pairs -> 0 .. PipeCap]
    BY <1>1, <2>1, <2>2
  <2> QED BY <1>1, <2>1, <2>3, ClientSideInv
<1>5. CASE ClientEnds(i)
  <2>1. /\ client' = [client EXCEPT ![i] = "ended"]
        /\ UNCHANGED <<starter, waiter, begun, lines, pipe, sent, serverVars>>
    BY <1>5 DEF ClientEnds
  <2> HIDE DEF States
  <2>2. client' \in [Pairs -> States] BY <1>1, <1>2, <2>1
  <2> QED BY <1>1, <2>1, <2>2, ClientSideInv DEF States
<1> QED BY <1>3, <1>4, <1>5

---------------------------------------------------------------------------
\* A step of one server.
LEMMA ServerSideInv ==
  ASSUME IndInv, NEW i \in Pairs, TypeOK', Counts(i)', Started',
         \A j \in Pairs \ {i} :
           UNCHANGED <<server[j], posted[j], done[j], iters[j], sent[j]>>
  PROVE  IndInv'
<1>1. ASSUME NEW j \in Pairs PROVE Counts(j)'
  <2>1. CASE j = i BY <2>1
  <2>2. CASE j # i
    <3>1. UNCHANGED <<server[j], posted[j], done[j], iters[j], sent[j]>> BY <2>2
    <3>2. Counts(j) BY DEF IndInv
    <3> QED BY <3>1, <3>2 DEF Counts
  <2> QED BY <2>1, <2>2
<1> QED BY <1>1 DEF IndInv

\* The script of the servers.
LEMMA WaiterInv ==
  ASSUME IndInv, NEW i \in Pairs, LaunchServer(i) \/ WaitServer(i)
  PROVE  IndInv'
<1> DEFINE Phases == {"launch", "wait", "over"}
           States == {"absent", "loading", "listening", "polling", "ended", "failed"}
<1>1. waiter \in Phases \X Pairs /\ server \in [Pairs -> States]
      /\ TypeOK /\ Pairs \subseteq Nat /\ i \in Nat
  BY Constants DEF IndInv, TypeOK
<1>2. CASE LaunchServer(i)
  <2>1. /\ waiter = <<"launch", i>> /\ waiter' = Step("launch", i, "wait")
        /\ server' = [server EXCEPT ![i] = "loading"]
        /\ UNCHANGED <<starter, client, begun, lines, pipe, sent, posted, done,
                       iters>>
    BY <1>2 DEF LaunchServer, clientVars
  <2>2. /\ waiter' \in {"launch", "wait"} \X Pairs
        /\ waiter' = <<"launch", i + 1>> \/ waiter' = <<"wait", 1>>
    BY <2>1, StepPair
  <2>3. server' \in [Pairs -> States] BY <1>1, <2>1
  <2>4. TypeOK' BY <1>1, <2>1, <2>2, <2>3 DEF TypeOK
  <2>5. \A j \in Pairs : i <= j => server[j] = "absent"
    BY <2>1 DEF IndInv, Started
  <2>6. Counts(i)'
    <3>1. Counts(i) /\ server[i] = "absent" BY <1>1, <2>5 DEF IndInv
    <3>2. server'[i] = "loading" BY <1>1, <2>1
    <3> QED BY <2>1, <3>1, <3>2 DEF Counts
  <2>7. Started'
    <3> SUFFICES ASSUME waiter'[1] = "launch", NEW j \in Pairs, waiter'[2] <= j
                 PROVE  server'[j] = "absent"
      BY DEF Started
    <3>1. waiter'[2] = i + 1 BY <2>2
    <3>2. i <= j /\ j # i BY <1>1, <3>1
    <3> QED BY <1>1, <2>1, <2>5, <3>2
  <2> QED BY <1>1, <2>1, <2>4, <2>6, <2>7, ServerSideInv
<1>3. CASE WaitServer(i)
  <2>1. /\ waiter' = Step("wait", i, "over")
        /\ UNCHANGED <<starter, client, begun, lines, pipe, sent, server, posted,
                       done, iters>>
    BY <1>3 DEF WaitServer, clientVars, serverVars
  <2>2. waiter' \in {"wait", "over"} \X Pairs BY <2>1, StepPair
  <2>3. TypeOK' BY <1>1, <2>1, <2>2 DEF TypeOK
  <2>4. Started' BY <2>2 DEF Started
  <2>5. Counts(i)' BY <2>1 DEF IndInv, Counts
  <2> QED BY <2>1, <2>3, <2>4, <2>5, ServerSideInv
<1> QED BY <1>2, <1>3

\* A server whose script has started it moves on.
LEMMA MovesOn ==
  ASSUME IndInv, NEW i \in Pairs, NEW s, server[i] # "absent",
         server' = [server EXCEPT ![i] = s] \/ server' = server,
         waiter' = waiter
  PROVE  Started'
<1> SUFFICES ASSUME waiter[1] = "launch", NEW j \in Pairs, waiter[2] <= j
             PROVE  server'[j] = "absent"
  BY DEF Started
<1>1. server[j] = "absent" BY DEF IndInv, Started
<1>2. j # i BY <1>1
<1> QED BY <1>1, <1>2 DEF IndInv, TypeOK

\* A server fills its receive queue.
LEMMA ListenInv ==
  ASSUME IndInv, NEW i \in Pairs, Listen(i)
  PROVE  IndInv'
<1> DEFINE States == {"absent", "loading", "listening", "polling", "ended", "failed"}
<1>1. /\ server[i] = "loading" /\ server' = [server EXCEPT ![i] = "listening"]
      /\ posted' = [posted EXCEPT ![i] = Depth]
      /\ UNCHANGED <<starter, waiter, client, begun, lines, pipe, sent, done,
                     iters>>
  BY DEF Listen, clientVars
<1>2. TypeOK /\ server \in [Pairs -> States] /\ posted \in [Pairs -> 0 .. Depth]
      /\ Depth \in 0 .. Depth
  BY Constants DEF IndInv, TypeOK
<1>3. server' \in [Pairs -> States] /\ posted' \in [Pairs -> 0 .. Depth]
  BY <1>1, <1>2
<1>4. TypeOK' BY <1>1, <1>2, <1>3 DEF TypeOK
<1>5. Counts(i)'
  <2>1. Counts(i) /\ done[i] = 0 BY <1>1 DEF IndInv, Counts
  <2>2. server'[i] = "listening" /\ posted'[i] = Depth /\ done'[i] = 0
    BY <1>1, <1>2, <2>1
  <2>3. posted'[i] + done'[i] = Depth BY <2>2, Constants
  <2> QED BY <1>1, <2>1, <2>2, <2>3 DEF Counts
<1>6. Started' BY <1>1, MovesOn
<1> QED BY <1>1, <1>2, <1>4, <1>5, <1>6, ServerSideInv

\* A client is connected or refused.
LEMMA ConnectInv ==
  ASSUME IndInv, NEW i \in Pairs, Connect(i)
  PROVE  IndInv'
<1> DEFINE Servers == {"absent", "loading", "listening", "polling", "ended", "failed"}
           Clients == {"absent", "loading", "connecting", "ready"} \cup Gone
<1>1. UNCHANGED <<starter, waiter, begun, lines, pipe, sent, posted, done, iters>>
  BY DEF Connect
<1>2. TypeOK /\ server \in [Pairs -> Servers] /\ client \in [Pairs -> Clients]
  BY DEF IndInv, TypeOK
<1>3. CASE server[i] = "listening"
  <2>1. /\ client' = [client EXCEPT ![i] = "ready"]
        /\ server' = [server EXCEPT ![i] = "polling"]
    BY <1>3 DEF Connect
  <2>2. server' \in [Pairs -> Servers] /\ server'[i] = "polling"
    BY <1>2, <2>1
  <2>3. client' \in [Pairs -> Clients]
    <3> "ready" \in Clients OBVIOUS
    <3> HIDE DEF Clients
    <3> QED BY <1>2, <2>1
  <2>4. TypeOK' BY <1>1, <1>2, <2>2, <2>3 DEF TypeOK
  <2>5. Counts(i)'
    <3>1. Counts(i) BY DEF IndInv
    <3> QED BY <1>1, <1>3, <2>2, <3>1 DEF Counts
  <2>6. Started' BY <1>1, <1>3, <2>1, MovesOn
  <2>7. \A j \in Pairs \ {i} : server'[j] = server[j] BY <1>2, <2>1
  <2> QED BY <1>1, <2>4, <2>5, <2>6, <2>7, ServerSideInv
<1>4. CASE server[i] # "listening"
  <2>1. client' = [client EXCEPT ![i] = "failed"] /\ server' = server
    BY <1>4 DEF Connect
  <2>2. client' \in [Pairs -> Clients]
    <3> "failed" \in Clients BY DEF Gone
    <3> HIDE DEF Clients
    <3> QED BY <1>2, <2>1
  <2>3. starter' \in {"launch", "key", "kill", "wait", "over"} \X Pairs
        /\ begun' \in [Pairs -> BOOLEAN] /\ lines' \in [Pairs -> 0 .. MaxLines]
        /\ pipe' \in [Pairs -> 0 .. PipeCap]
    BY <1>1, <1>2 DEF TypeOK
  <2>4. UNCHANGED <<waiter, sent, serverVars>> BY <1>1, <2>1 DEF serverVars
  <2> QED BY <2>2, <2>3, <2>4, ClientSideInv
<1> QED BY <1>3, <1>4

\* A segment takes a receive.
LEMMA ArriveInv ==
  ASSUME IndInv, NEW i \in Pairs, Arrive(i)
  PROVE  IndInv'
<1>1. /\ sent[i] < Segments /\ posted[i] > 0 /\ server[i] = "polling"
      /\ sent' = [sent EXCEPT ![i] = @ + 1]
      /\ posted' = [posted EXCEPT ![i] = @ - 1]
      /\ done' = [done EXCEPT ![i] = @ + 1]
      /\ UNCHANGED <<starter, waiter, client, begun, lines, pipe, server, iters>>
  BY DEF Arrive, clientVars
<1>2. /\ TypeOK /\ sent \in [Pairs -> 0 .. Segments]
      /\ posted \in [Pairs -> 0 .. Depth] /\ done \in [Pairs -> 0 .. Depth]
      /\ iters \in [Pairs -> Int] /\ Counts(i)
  BY DEF IndInv, TypeOK
<1>3. /\ sent[i] \in Nat /\ posted[i] \in Nat /\ done[i] \in Nat
      /\ iters[i] \in Int /\ Segments \in Nat /\ Depth \in Nat /\ Iters \in Int
  BY <1>2, Constants
<1>4. posted[i] + done[i] = Depth /\ iters[i] = Iters - (sent[i] - done[i])
  BY <1>1, <1>2 DEF Counts
<1>5. /\ sent[i] + 1 \in 0 .. Segments /\ posted[i] - 1 \in 0 .. Depth
      /\ done[i] + 1 \in 0 .. Depth
  BY <1>1, <1>3, <1>4
<1>6. /\ sent' \in [Pairs -> 0 .. Segments] /\ posted' \in [Pairs -> 0 .. Depth]
      /\ done' \in [Pairs -> 0 .. Depth]
  BY <1>1, <1>2, <1>5
<1>7. TypeOK' BY <1>1, <1>2, <1>6 DEF TypeOK
<1>8. Counts(i)'
  <2>1. /\ sent'[i] = sent[i] + 1 /\ posted'[i] = posted[i] - 1
        /\ done'[i] = done[i] + 1
    BY <1>1, <1>2
  <2>2. posted'[i] + done'[i] = Depth BY <1>3, <1>4, <2>1
  <2>3. iters[i] = Iters - (sent'[i] - done'[i]) BY <1>3, <1>4, <2>1
  <2> QED BY <1>1, <1>4, <2>2, <2>3 DEF Counts
<1>9. Started' BY <1>1 DEF IndInv, Started
<1> QED BY <1>1, <1>2, <1>7, <1>8, <1>9, ServerSideInv

\* The square of a number of completions is at least the number.
LEMMA PostsEnough ==
  ASSUME NEW ne \in Nat \ {0}
  PROVE  Posts(ne, ne) \in Nat /\ ne <= Posts(ne, ne)
<1>1. 1 * ne <= ne * ne BY MulMono
<1> QED BY <1>1 DEF Posts

\* A poll fills the receive queue again.
LEMMA PollInv ==
  ASSUME IndInv, NEW i \in Pairs, NEW ne \in 1 .. MaxPoll, Poll(i, ne)
  PROVE  IndInv'
<1> DEFINE States == {"absent", "loading", "listening", "polling", "ended", "failed"}
<1>1. /\ server[i] = "polling" /\ ne <= done[i]
      /\ done' = [done EXCEPT ![i] = @ - ne]
      /\ posted' = [posted EXCEPT ![i] = Smaller(@ + Posts(ne, ne), Depth - done'[i])]
      /\ iters' = [iters EXCEPT ![i] = Counted(@, ne)]
      /\ server' = [server EXCEPT ![i] = "ended"] \/ server' = server
      /\ UNCHANGED <<starter, waiter, client, begun, lines, pipe, sent>>
  BY DEF Poll, Refill, clientVars
<1>2. /\ TypeOK /\ server \in [Pairs -> States] /\ sent[i] \in 0 .. Segments
      /\ posted \in [Pairs -> 0 .. Depth] /\ done \in [Pairs -> 0 .. Depth]
      /\ iters \in [Pairs -> Int] /\ Counts(i)
  BY DEF IndInv, TypeOK
<1>3. /\ sent[i] \in Nat /\ posted[i] \in Nat /\ done[i] \in Nat
      /\ done[i] <= Depth /\ iters[i] \in Int /\ Depth \in Nat /\ Iters \in Int
      /\ ne \in Nat \ {0}
  BY <1>2, Constants
<1>4. posted[i] + done[i] = Depth /\ iters[i] = Iters - (sent[i] - done[i])
  BY <1>1, <1>2 DEF Counts
<1>5. done'[i] = done[i] - ne BY <1>1, <1>2
<1>6. Smaller(posted[i] + Posts(ne, ne), Depth - done'[i]) = Depth - done'[i]
  <2>1. Posts(ne, ne) \in Nat /\ ne <= Posts(ne, ne) BY <1>3, PostsEnough
  <2>2. Depth - done'[i] <= posted[i] + Posts(ne, ne) BY <1>3, <1>4, <1>5, <2>1
  <2>3. Depth - done'[i] \in Int /\ posted[i] + Posts(ne, ne) \in Int
    BY <1>3, <1>5, <2>1
  <2> QED BY <2>2, <2>3 DEF Smaller
<1>7. posted' = [posted EXCEPT ![i] = Depth - done'[i]] BY <1>1, <1>6
<1>8. /\ done[i] - ne \in 0 .. Depth /\ Depth - done'[i] \in 0 .. Depth
      /\ iters[i] - ne \in Int
  BY <1>1, <1>3, <1>5
<1>9. /\ done' \in [Pairs -> 0 .. Depth] /\ posted' \in [Pairs -> 0 .. Depth]
  BY <1>1, <1>2, <1>7, <1>8
<1>10. iters' \in [Pairs -> Int] /\ iters'[i] = iters[i] - ne
  BY <1>1, <1>2, <1>8 DEF Counted
<1>11. server' \in [Pairs -> States] /\ server'[i] \in {"polling", "ended"}
  BY <1>1, <1>2
<1>12. TypeOK' BY <1>1, <1>2, <1>9, <1>10, <1>11 DEF TypeOK
<1>13. Counts(i)'
  <2>1. posted'[i] = Depth - done'[i] BY <1>2, <1>7
  <2>2. posted'[i] + done'[i] = Depth BY <1>3, <1>5, <2>1
  <2>3. iters'[i] = Iters - (sent[i] - done'[i]) BY <1>3, <1>4, <1>5, <1>10
  <2> QED BY <1>1, <1>11, <2>2, <2>3 DEF Counts
<1>14. Started' BY <1>1, MovesOn
<1>15. \A j \in Pairs \ {i} :
         UNCHANGED <<server[j], posted[j], done[j], iters[j], sent[j]>>
  BY <1>1, <1>2, <1>7
<1> QED BY <1>12, <1>13, <1>14, <1>15, ServerSideInv

\* A server that fails has taken nothing off its count, whatever it has posted.
LEMMA FailInv ==
  ASSUME IndInv, NEW i \in Pairs, server[i] = "polling",
         server' = [server EXCEPT ![i] = "failed"],
         posted' \in [Pairs -> 0 .. Depth], done' \in [Pairs -> 0 .. Depth],
         \A j \in Pairs \ {i} : UNCHANGED <<posted[j], done[j]>>,
         UNCHANGED <<starter, waiter, client, begun, lines, pipe, sent, iters>>
  PROVE  IndInv'
<1> DEFINE States == {"absent", "loading", "listening", "polling", "ended", "failed"}
<1>1. TypeOK /\ server \in [Pairs -> States] BY DEF IndInv, TypeOK
<1>2. server' \in [Pairs -> States] /\ server'[i] = "failed" BY <1>1
<1>3. TypeOK' BY <1>1, <1>2 DEF TypeOK
<1>4. Counts(i)' BY <1>2 DEF Counts
<1>5. Started' BY MovesOn
<1>6. \A j \in Pairs \ {i} : server'[j] = server[j] BY <1>1
<1> QED BY <1>3, <1>4, <1>5, <1>6, ServerSideInv

\* A poll with a failed completion may still have posted receives.
LEMMA CompletionFailsInv ==
  ASSUME IndInv, NEW i \in Pairs, NEW ne \in 1 .. MaxPoll, NEW n \in 0 .. ne - 1,
         CompletionFails(i, n, ne)
  PROVE  IndInv'
<1>1. /\ server[i] = "polling" /\ ne <= done[i]
      /\ done' = [done EXCEPT ![i] = @ - ne]
      /\ posted' = [posted EXCEPT ![i] = Smaller(@ + Posts(n, ne), Depth - done'[i])]
      /\ server' = [server EXCEPT ![i] = "failed"]
      /\ UNCHANGED <<starter, waiter, client, begun, lines, pipe, sent, iters>>
  BY DEF CompletionFails, Refill, clientVars
<1>2. /\ posted \in [Pairs -> 0 .. Depth] /\ done \in [Pairs -> 0 .. Depth]
  BY DEF IndInv, TypeOK
<1>3. /\ posted[i] \in 0 .. Depth /\ done[i] \in 0 .. Depth /\ Depth \in Nat
      /\ ne \in Nat /\ n \in Nat
  BY <1>2, Constants
<1>4. Posts(n, ne) \in Nat BY <1>3 DEF Posts
<1>5. done'[i] = done[i] - ne BY <1>1, <1>2
<1>6. done[i] - ne \in 0 .. Depth BY <1>1, <1>3
<1>7. Smaller(posted[i] + Posts(n, ne), Depth - done'[i]) \in 0 .. Depth
  BY <1>3, <1>4, <1>5, <1>6 DEF Smaller
<1>8. posted' \in [Pairs -> 0 .. Depth] /\ done' \in [Pairs -> 0 .. Depth]
  BY <1>1, <1>2, <1>6, <1>7
<1>9. \A j \in Pairs \ {i} : UNCHANGED <<posted[j], done[j]>> BY <1>1, <1>2
<1> QED BY <1>1, <1>8, <1>9, FailInv

\* Every step keeps the invariant.
LEMMA StepInv == IndInv /\ [Next]_vars => IndInv'
<1> SUFFICES ASSUME IndInv, [Next]_vars PROVE IndInv' OBVIOUS
<1>1. CASE KeyPressed BY <1>1, StarterInv
<1>2. ASSUME NEW i \in Pairs,
             \/ LaunchClient(i) \/ Kill(i) \/ Wait(i) \/ LaunchServer(i)
             \/ WaitServer(i) \/ InstallHandler(i) \/ Listen(i) \/ Connect(i)
             \/ Arrive(i) \/ Write(i) \/ ClientEnds(i)
             \/ \E ne \in 1 .. MaxPoll :
                  Poll(i, ne) \/ \E n \in 0 .. ne - 1 : CompletionFails(i, n, ne)
             \/ PollFails(i)
      PROVE  IndInv'
  <2>1. CASE LaunchClient(i) \/ Kill(i) \/ Wait(i) BY <2>1, StarterInv
  <2>2. CASE LaunchServer(i) \/ WaitServer(i) BY <2>2, WaiterInv
  <2>3. CASE InstallHandler(i) \/ Write(i) \/ ClientEnds(i) BY <2>3, ClientInv
  <2>4. CASE Listen(i) BY <2>4, ListenInv
  <2>5. CASE Connect(i) BY <2>5, ConnectInv
  <2>6. CASE Arrive(i) BY <2>6, ArriveInv
  <2>7. CASE \E ne \in 1 .. MaxPoll : Poll(i, ne) BY <2>7, PollInv
  <2>8. CASE \E ne \in 1 .. MaxPoll : \E n \in 0 .. ne - 1 : CompletionFails(i, n, ne)
    BY <2>8, CompletionFailsInv
  <2>9. CASE PollFails(i)
    <3>1. /\ server[i] = "polling" /\ server' = [server EXCEPT ![i] = "failed"]
          /\ UNCHANGED <<starter, waiter, client, begun, lines, pipe, sent>>
          /\ UNCHANGED <<posted, done, iters>>
      BY <2>9 DEF PollFails, clientVars
    <3>2. posted' \in [Pairs -> 0 .. Depth] /\ done' \in [Pairs -> 0 .. Depth]
      BY <3>1 DEF IndInv, TypeOK
    <3> QED BY <3>1, <3>2, FailInv
  <2> QED BY <1>2, <2>1, <2>2, <2>3, <2>4, <2>5, <2>6, <2>7, <2>8, <2>9
<1>3. CASE UNCHANGED vars
  BY <1>3 DEF vars, clientVars, serverVars, IndInv, TypeOK, Counts, Started
<1> QED BY <1>1, <1>2, <1>3 DEF Next

---------------------------------------------------------------------------
\* However many completions a poll returns, and however large the receive queue
\* is, it is full but for what is completed, and until a server ends with an
\* error its count is what it has not polled (rc_server.cpp:23-49).
THEOREM CountsHold == Spec => []ServerCounts
<1>1. IndInv => ServerCounts
  BY DEF IndInv, Counts, ServerCounts, ReceivesPosted, ItersCount
<1> QED BY <1>1, InitInv, StepInv, PTL DEF Spec

---------------------------------------------------------------------------
(* How a server ends.                                                      *)

\* The count of a server that runs has not reached 0, and has when it ends.
CountsDown ==
  \A i \in Pairs : IF server[i] = "ended" THEN iters[i] = 0 ELSE iters[i] >= 1

\* A server that runs has still to poll a segment, one that ended by its count
\* has polled them all, and one that failed has a count left.
ServersEnd ==
  Segments <= Iters =>
    \A i \in Pairs :
      /\ server[i] \in {"polling", "failed"} => iters[i] >= 1
      /\ server[i] = "ended" => sent[i] = Iters /\ done[i] = 0

\* Every step keeps the count above 0 until the server ends.
LEMMA StepCountsDown ==
  ASSUME IndInv, CountsDown, [Next]_vars, Segments <= Iters
  PROVE  CountsDown'
<1>1. /\ server \in [Pairs -> {"absent", "loading", "listening", "polling", "ended",
                              "failed"}]
      /\ iters \in [Pairs -> Int] /\ done \in [Pairs -> 0 .. Depth]
      /\ sent \in [Pairs -> 0 .. Segments]
  BY DEF IndInv, TypeOK
<1>2. ASSUME UNCHANGED <<server, iters>> PROVE CountsDown'
  BY <1>2 DEF CountsDown
<1>3. ASSUME NEW i \in Pairs, NEW x, server[i] # "ended", x # "ended",
             server' = [server EXCEPT ![i] = x], UNCHANGED iters
      PROVE  CountsDown'
  BY <1>1, <1>3 DEF CountsDown
<1>4. ASSUME NEW i \in Pairs, NEW ne \in 1 .. MaxPoll, Poll(i, ne)
      PROVE  CountsDown'
  <2>1. /\ server[i] = "polling" /\ ne <= done[i]
        /\ iters' = [iters EXCEPT ![i] = Counted(@, ne)]
        /\ server' = IF iters'[i] = 0 THEN [server EXCEPT ![i] = "ended"] ELSE server
    BY <1>4 DEF Poll, Refill
  <2>2. /\ sent[i] \in Nat /\ sent[i] <= Iters /\ done[i] \in Nat /\ ne \in Nat
        /\ Iters \in Nat /\ iters[i] = Iters - (sent[i] - done[i])
    <3>1. sent[i] \in 0 .. Segments /\ done[i] \in 0 .. Depth BY <1>1
    <3>2. iters[i] = Iters - (sent[i] - done[i]) BY <2>1 DEF IndInv, Counts
    <3> QED BY <3>1, <3>2, Constants
  <2>3. iters'[i] = iters[i] - ne BY <1>1, <2>1 DEF Counted
  <2>4. iters'[i] \in Nat BY <2>1, <2>2, <2>3
  <2>5. \A j \in Pairs : j # i => iters'[j] = iters[j] /\ server'[j] = server[j]
    BY <1>1, <2>1
  <2>6. IF server'[i] = "ended" THEN iters'[i] = 0 ELSE iters'[i] >= 1
    BY <1>1, <2>1, <2>4
  <2> QED BY <2>5, <2>6 DEF CountsDown
<1>5. ASSUME NEW i \in Pairs, LaunchServer(i) PROVE CountsDown'
  <2>1. waiter = <<"launch", i>> BY <1>5 DEF LaunchServer
  <2>2. waiter[1] = "launch" /\ waiter[2] = i /\ i <= i BY <2>1, Constants
  <2>3. server[i] = "absent" BY <2>2 DEF IndInv, Started
  <2> QED BY <1>3, <1>5, <2>3 DEF LaunchServer
<1>6. ASSUME NEW i \in Pairs, Listen(i) PROVE CountsDown'
  BY <1>3, <1>6 DEF Listen
<1>7. ASSUME NEW i \in Pairs, Connect(i) PROVE CountsDown'
  <2>1. CASE server[i] = "listening" BY <1>3, <1>7, <2>1 DEF Connect
  <2>2. CASE server[i] # "listening" BY <1>2, <1>7, <2>2 DEF Connect
  <2> QED BY <2>1, <2>2
<1>8. ASSUME NEW i \in Pairs,
             \/ LaunchClient(i) \/ Kill(i) \/ Wait(i) \/ WaitServer(i)
             \/ InstallHandler(i) \/ Arrive(i) \/ Write(i) \/ ClientEnds(i)
      PROVE  CountsDown'
  <2>1. UNCHANGED <<server, iters>>
    BY <1>8 DEF LaunchClient, Kill, Wait, WaitServer, InstallHandler, Arrive,
                Write, ClientEnds, serverVars
  <2> QED BY <1>2, <2>1
<1>9. CASE KeyPressed \/ UNCHANGED vars
  BY <1>2, <1>9 DEF KeyPressed, vars, serverVars
<1>10. ASSUME NEW i \in Pairs,
              \/ PollFails(i)
              \/ \E ne \in 1 .. MaxPoll : \E n \in 0 .. ne - 1 :
                   CompletionFails(i, n, ne)
       PROVE  CountsDown'
  <2>1. server[i] = "polling" /\ server' = [server EXCEPT ![i] = "failed"]
        /\ UNCHANGED iters
    BY <1>10 DEF PollFails, CompletionFails
  <2> QED BY <1>3, <2>1
<1> QED BY <1>4, <1>5, <1>6, <1>7, <1>8, <1>9, <1>10 DEF Next

\* A server started for at least as many segments as its client sends, and for
\* one at least, never steps over the count it tests for equality: it ends with
\* an error and a count that is left, or when it has polled them all
\* (rc_server.cpp:23-49, 60).
THEOREM CountsReachZero == ASSUME Iters >= 1 PROVE Spec => []ServersEnd
<1>1. Segments <= Iters /\ Init => CountsDown
  BY Constants DEF Init, CountsDown
<1>2. IndInv /\ (Segments <= Iters => CountsDown) => ServersEnd
  <2> SUFFICES ASSUME IndInv, CountsDown, Segments <= Iters, NEW i \in Pairs
               PROVE  /\ server[i] \in {"polling", "failed"} => iters[i] >= 1
                      /\ server[i] = "ended" => sent[i] = Iters /\ done[i] = 0
    BY DEF ServersEnd
  <2>1. server[i] \in {"polling", "failed"} => iters[i] >= 1 BY DEF CountsDown
  <2>2. server[i] = "ended" => iters[i] = 0 BY DEF CountsDown
  <2>3. /\ sent[i] \in Nat /\ sent[i] <= Iters /\ done[i] \in Nat /\ Iters \in Nat
        /\ server[i] = "ended" => iters[i] = Iters - (sent[i] - done[i])
    <3>1. sent[i] \in 0 .. Segments /\ done[i] \in 0 .. Depth
      BY DEF IndInv, TypeOK
    <3>2. server[i] = "ended" => iters[i] = Iters - (sent[i] - done[i])
      BY DEF IndInv, Counts
    <3> QED BY <3>1, <3>2, Constants
  <2> QED BY <2>1, <2>2, <2>3
<1> DEFINE Inv == IndInv /\ (Segments <= Iters => CountsDown)
<1>3. Init => Inv BY <1>1, InitInv
<1>4. Inv /\ [Next]_vars => Inv' BY StepInv, StepCountsDown
<1>5. Inv => ServersEnd BY <1>2
<1> HIDE DEF Inv
<1> QED BY <1>3, <1>4, <1>5, PTL DEF Spec
===============================================================================
